---- MODULE Spec2Model ----
(***************************************************************************)
(* Kitty text sizing protocol (OSC 66) encoders of opentui:                *)
(*   - packages/core/src/ansi.ts       ANSI.textSizing and its variants    *)
(*   - packages/core/src/zig/ansi.zig  ANSI.textSizingOutput and variants  *)
(* Strings are sequences of byte values, so that every separator of the    *)
(* wire format is a byte the properties can count.                         *)
(***************************************************************************)
EXTENDS Integers, Sequences, FiniteSets, TLC

VARIABLES call, args, text, out, result, cap, sink, log, frames, heap

(* The capability probes: see the probe protocol below. *)
VARIABLES pstate, flag, wire, sentOrder, term, answered, replies, readCount,
          resolution, overlap, alive

encoderVars == <<call, args, text, out, result, cap, sink, log, frames, heap>>

probeVars == <<pstate, flag, wire, sentOrder, term, answered, replies, readCount,
               resolution, overlap, alive>>

(* The markdown renderers: see the markdown renderers below. *)
VARIABLES mdRenderer, mdLines, mdPushes, mdOut, mdDone

mdVars == <<mdRenderer, mdLines, mdPushes, mdOut, mdDone>>

(* The markdown editors: see the markdown editors below. *)
VARIABLES edVariant, edEditor, edValue, vimMode, previewContent, previewShown,
          edListeners, edCallbacks, edTitle, edFocused, edLast

edVars == <<edVariant, edEditor, edValue, vimMode, previewContent, previewShown,
            edListeners, edCallbacks, edTitle, edFocused, edLast>>

(* The text-sizing demo: see the text-sizing demo below. *)
VARIABLES demoStage, demoSeg, demoDone, demoAsleep, demoThrown, demoOut, demoExit

demoVars == <<demoStage, demoSeg, demoDone, demoAsleep, demoThrown, demoOut, demoExit>>

appVars == <<mdVars, edVars, demoVars>>

vars == <<encoderVars, probeVars, appVars>>

(***************************************************************************)
(* Bytes of the wire format.                                               *)
(***************************************************************************)
ESC == 27
RBRACKET == 93
BACKSLASH == 92
SEMI == 59
COLON == 58
EQUALS == 61
SPACE == 32
LBRACKET == 91
NEWLINE == 10
CARRIAGE == 13
HASH == 35
STAR == 42
PLUS == 43
DASH == 45
GREATER == 62
BACKTICK == 96
CH_m == 109
BULLET == 8226
HLINE == 9472
VLINE == 9474
DIGIT0 == 48
CH_s == 115
CH_w == 119
CH_n == 110
CH_d == 100
CH_v == 118
CH_h == 104

(***************************************************************************)
(* Documented parameter ranges: scale 1-7, width 0-7, numerator and        *)
(* denominator 0-15.                                                       *)
(***************************************************************************)
MaxScale == 7
MaxWidth == 7
MaxFraction == 15

(***************************************************************************)
(* Bounds of the exploration.                                              *)
(***************************************************************************)
MaxTextLen == 1
MaxCap == 8
MaxCalls == 3
MaxAdvance == 2
MaxLines == 3
MaxRuns == 2
MaxFailAt == 20

(* Writer capacity of a sink that never fails (an unbounded list writer). *)
Unlimited == 0 - 1

(***************************************************************************)
(* Number formatting: `${n}` in a template literal and {d} in std.fmt both *)
(* print a non-negative integer in decimal, without padding.               *)
(***************************************************************************)
RECURSIVE Dec(_)
Dec(n) == IF n < 10 THEN <<DIGIT0 + n>> ELSE Dec(n \div 10) \o <<DIGIT0 + (n % 10)>>

RECURSIVE Join(_, _)
Join(parts, sep) ==
    IF Len(parts) = 0 THEN <<>>
    ELSE IF Len(parts) = 1 THEN Head(parts)
    ELSE Head(parts) \o sep \o Join(Tail(parts), sep)

(***************************************************************************)
(* TypeScript: ANSI.textSizing.  params is a record that holds only the    *)
(* properties the caller set (the interface's properties are optional).    *)
(***************************************************************************)
Has(params, f) == f \in DOMAIN params

(* JavaScript truthiness of an optional numeric property. *)
TruthyNum(params, f) == Has(params, f) /\ params[f] # 0

(* Variant: the test against the default scale is left out. *)
tsScaleParts_NoDefaultTest(params) ==
    IF TruthyNum(params, "scale")
    THEN << <<CH_s, EQUALS>> \o Dec(params.scale) >>
    ELSE <<>>

tsScaleParts(params) ==
    IF TruthyNum(params, "scale") /\ params.scale > 1
    THEN << <<CH_s, EQUALS>> \o Dec(params.scale) >>
    ELSE <<>>

tsWidthParts(params) ==
    IF TruthyNum(params, "width") /\ params.width > 0
    THEN << <<CH_w, EQUALS>> \o Dec(params.width) >>
    ELSE <<>>

(* Variant: scale and fraction are treated as alternatives. *)
tsFractionParts_UnlessScaled(params) ==
    IF /\ TruthyNum(params, "numerator")
       /\ TruthyNum(params, "denominator")
       /\ params.denominator > params.numerator
       /\ ~(TruthyNum(params, "scale") /\ params.scale > 1)
    THEN << <<CH_n, EQUALS>> \o Dec(params.numerator) \o <<COLON>>
            \o <<CH_d, EQUALS>> \o Dec(params.denominator) >>
    ELSE <<>>

tsFractionParts(params) ==
    IF /\ TruthyNum(params, "numerator")
       /\ TruthyNum(params, "denominator")
       /\ params.denominator > params.numerator
    THEN << <<CH_n, EQUALS>> \o Dec(params.numerator) \o <<COLON>>
            \o <<CH_d, EQUALS>> \o Dec(params.denominator) >>
    ELSE <<>>

tsVerticalParts(params) ==
    IF Has(params, "verticalAlign") /\ params.verticalAlign # "top"
    THEN << <<CH_v, EQUALS>>
            \o Dec(IF params.verticalAlign = "bottom" THEN 1 ELSE 2) >>
    ELSE <<>>

tsHorizontalParts(params) ==
    IF Has(params, "horizontalAlign") /\ params.horizontalAlign # "left"
    THEN << <<CH_h, EQUALS>>
            \o Dec(IF params.horizontalAlign = "right" THEN 1 ELSE 2) >>
    ELSE <<>>

(* Variant: the width is pushed before the scale. *)
tsParts_WidthFirst(params) ==
    tsWidthParts(params) \o tsScaleParts(params) \o tsFractionParts(params)
        \o tsVerticalParts(params) \o tsHorizontalParts(params)

tsParts(params) ==
    tsScaleParts(params) \o tsWidthParts(params) \o tsFractionParts(params)
        \o tsVerticalParts(params) \o tsHorizontalParts(params)

(* Variant: the parts are joined with the block separator. *)
tsParamsStr_JoinSemicolon(parts) ==
    IF Len(parts) > 0 THEN Join(parts, <<SEMI>>) \o <<SEMI>> ELSE <<SEMI>>

tsParamsStr(parts) ==
    IF Len(parts) > 0 THEN Join(parts, <<COLON>>) \o <<SEMI>> ELSE <<SEMI>>

(* Variant: escape bytes are stripped from the payload. *)
textSizing_StripsEscape(params, txt) ==
    <<ESC, RBRACKET, DIGIT0 + 6, DIGIT0 + 6>> \o tsParamsStr(tsParts(params))
        \o SelectSeq(txt, LAMBDA b : b # ESC) \o <<ESC, BACKSLASH>>

textSizing(params, txt) ==
    <<ESC, RBRACKET, DIGIT0 + 6, DIGIT0 + 6>> \o tsParamsStr(tsParts(params))
        \o txt \o <<ESC, BACKSLASH>>

scaledText(scale, txt) ==
    <<ESC, RBRACKET, DIGIT0 + 6, DIGIT0 + 6, SEMI, CH_s, EQUALS>> \o Dec(scale)
        \o <<SEMI>> \o txt \o <<ESC, BACKSLASH>>

fractionalText(numerator, denominator, txt) ==
    <<ESC, RBRACKET, DIGIT0 + 6, DIGIT0 + 6, SEMI, CH_n, EQUALS>> \o Dec(numerator)
        \o <<COLON, CH_d, EQUALS>> \o Dec(denominator)
        \o <<SEMI>> \o txt \o <<ESC, BACKSLASH>>

textSizingWithWidth(scale, width, txt) ==
    <<ESC, RBRACKET, DIGIT0 + 6, DIGIT0 + 6, SEMI, CH_s, EQUALS>> \o Dec(scale)
        \o <<COLON, CH_w, EQUALS>> \o Dec(width)
        \o <<SEMI>> \o txt \o <<ESC, BACKSLASH>>

explicitWidth(width, txt) ==
    <<ESC, RBRACKET, DIGIT0 + 6, DIGIT0 + 6, SEMI, CH_w, EQUALS>> \o Dec(width)
        \o <<SEMI>> \o txt \o <<ESC, BACKSLASH>>

(***************************************************************************)
(* Zig: the writer.  The encoders take `writer: anytype`, any byte sink,    *)
(* and turn every writer error into AnsiError.WriteFailed.  A sink is      *)
(* either a buffer of capacity cap (std.io.fixedBufferStream: a write      *)
(* stores the bytes that still fit and fails when some do not; cap =       *)
(* Unlimited never fails for lack of room) or a sink that refuses its      *)
(* failAt-th write, storing nothing of it, and takes every other write     *)
(* (failAt = 0: it refuses none).  The sink counts the writes it was       *)
(* given (calls), those it refused (refused) and those it was given after  *)
(* it had refused one (after).  Writing no bytes asks nothing of the sink. *)
(***************************************************************************)
NewWriter(capacity) ==
    [buf |-> <<>>, cap |-> capacity, failAt |-> 0, calls |-> 0, refused |-> 0,
     after |-> 0]

FailingWriter(k) == [NewWriter(Unlimited) EXCEPT !.failAt = k]

writeAll(w, bytes) ==
    IF bytes = <<>> THEN [writer |-> w, failed |-> FALSE]
    ELSE LET given == [w EXCEPT !.calls = @ + 1,
                                !.after = IF w.refused > 0 THEN @ + 1 ELSE @]
         IN  IF given.calls = w.failAt
             THEN [writer |-> [given EXCEPT !.refused = @ + 1], failed |-> TRUE]
             ELSE IF w.cap = Unlimited \/ Len(w.buf) + Len(bytes) <= w.cap
             THEN [writer |-> [given EXCEPT !.buf = @ \o bytes], failed |-> FALSE]
             ELSE [writer |-> [given EXCEPT
                                   !.buf = @ \o SubSeq(bytes, 1, w.cap - Len(w.buf)),
                                   !.refused = @ + 1],
                   failed |-> TRUE]

(* Variant: after a failed write the remaining writes are still made, and  *)
(* the failure is returned at the end.                                     *)
RECURSIVE WriteEach_KeepsWriting(_, _)
WriteEach_KeepsWriting(w, writes) ==
    IF Len(writes) = 0
    THEN [writer |-> w, err |-> IF w.refused > 0 THEN "WriteFailed" ELSE "none"]
    ELSE WriteEach_KeepsWriting(writeAll(w, Head(writes)).writer, Tail(writes))

(* A run of writes, each followed by `catch return AnsiError.WriteFailed`. *)
RECURSIVE WriteEach(_, _)
WriteEach(w, writes) ==
    IF Len(writes) = 0 THEN [writer |-> w, err |-> "none"]
    ELSE LET r == writeAll(w, Head(writes))
         IN  IF r.failed THEN [writer |-> r.writer, err |-> "WriteFailed"]
             ELSE WriteEach(r.writer, Tail(writes))

(***************************************************************************)
(* Zig: ANSI.textSizingOutput.  std.fmt.format writes the literal pieces   *)
(* of its format string and each formatted argument one after the other.  *)
(***************************************************************************)
(* Variant: needs_separator is ignored and every field starts a block. *)
zigSeparator_AlwaysSemicolon(needs_separator) == <<SEMI>>

zigSeparator(needs_separator) ==
    IF needs_separator THEN <<COLON>> ELSE <<SEMI>>

zigAlignCode(align) ==
    CASE align = "top" -> 0
      [] align = "left" -> 0
      [] align = "bottom" -> 1
      [] align = "right" -> 1
      [] align = "center" -> 2

zigScaleWrites(params) ==
    IF params.scale > 1
    THEN << <<SEMI, CH_s, EQUALS>>, Dec(params.scale) >>
    ELSE <<>>

zigWidthWrites(params, needs_separator) ==
    IF params.width > 0
    THEN << zigSeparator(needs_separator), <<CH_w, EQUALS>>, Dec(params.width) >>
    ELSE <<>>

(* Variant: the pair is written whenever the numerator is set. *)
zigFractionWrites_NumeratorOnly(params, needs_separator) ==
    IF params.numerator > 0
    THEN << zigSeparator(needs_separator), <<CH_n, EQUALS>>, Dec(params.numerator),
            <<COLON, CH_d, EQUALS>>, Dec(params.denominator) >>
    ELSE <<>>

zigFractionWrites(params, needs_separator) ==
    IF params.numerator > 0 /\ params.denominator > params.numerator
    THEN << zigSeparator(needs_separator), <<CH_n, EQUALS>>, Dec(params.numerator),
            <<COLON, CH_d, EQUALS>>, Dec(params.denominator) >>
    ELSE <<>>

zigVerticalWrites(params, needs_separator) ==
    IF params.vertical_align # "top"
    THEN << zigSeparator(needs_separator), <<CH_v, EQUALS>>,
            Dec(zigAlignCode(params.vertical_align)) >>
    ELSE <<>>

zigHorizontalWrites(params, needs_separator) ==
    IF params.horizontal_align # "left"
    THEN << zigSeparator(needs_separator), <<CH_h, EQUALS>>,
            Dec(zigAlignCode(params.horizontal_align)) >>
    ELSE <<>>

textSizingOutputWrites(params, txt) ==
    LET sep1 == params.scale > 1
        sep2 == sep1 \/ params.width > 0
        sep3 == sep2 \/ (params.numerator > 0 /\ params.denominator > params.numerator)
        sep4 == sep3 \/ params.vertical_align # "top"
    IN  << <<ESC, RBRACKET, DIGIT0 + 6, DIGIT0 + 6>> >>
            \o zigScaleWrites(params)
            \o zigWidthWrites(params, sep1)
            \o zigFractionWrites(params, sep2)
            \o zigVerticalWrites(params, sep3)
            \o zigHorizontalWrites(params, sep4)
            \o << <<SEMI>>, txt, <<ESC, BACKSLASH>> >>

textSizingOutput(writer, params, txt) ==
    WriteEach(writer, textSizingOutputWrites(params, txt))

scaledTextOutput(writer, scale, txt) ==
    WriteEach(writer, << <<ESC, RBRACKET, DIGIT0 + 6, DIGIT0 + 6, SEMI, CH_s, EQUALS>>,
                         Dec(scale), <<SEMI>>, txt, <<ESC, BACKSLASH>> >>)

fractionalTextOutput(writer, numerator, denominator, txt) ==
    WriteEach(writer, << <<ESC, RBRACKET, DIGIT0 + 6, DIGIT0 + 6, SEMI, CH_n, EQUALS>>,
                         Dec(numerator), <<COLON, CH_d, EQUALS>>, Dec(denominator),
                         <<SEMI>>, txt, <<ESC, BACKSLASH>> >>)

(* Variant: scale and width are written as two blocks. *)
textSizingWithWidthOutput_TwoBlocks(writer, scale, width, txt) ==
    WriteEach(writer, << <<ESC, RBRACKET, DIGIT0 + 6, DIGIT0 + 6, SEMI, CH_s, EQUALS>>,
                         Dec(scale), <<SEMI, CH_w, EQUALS>>, Dec(width),
                         <<SEMI>>, txt, <<ESC, BACKSLASH>> >>)

textSizingWithWidthOutput(writer, scale, width, txt) ==
    WriteEach(writer, << <<ESC, RBRACKET, DIGIT0 + 6, DIGIT0 + 6, SEMI, CH_s, EQUALS>>,
                         Dec(scale), <<COLON, CH_w, EQUALS>>, Dec(width),
                         <<SEMI>>, txt, <<ESC, BACKSLASH>> >>)

explicitWidthOutput(writer, width, txt) ==
    WriteEach(writer, << <<ESC, RBRACKET, DIGIT0 + 6, DIGIT0 + 6, SEMI, CH_w, EQUALS>>,
                         Dec(width), <<SEMI>>, txt, <<ESC, BACKSLASH>> >>)

(***************************************************************************)
(* Inputs.  A text is a byte string of at most MaxTextLen bytes over bytes *)
(* that matter to the format (ESC, backslash and the block separator),     *)
(* or one of the payloads of the documented examples.                      *)
(***************************************************************************)
TextBytes == {ESC, BACKSLASH, SEMI}

RECURSIVE SeqsUpTo(_, _)
SeqsUpTo(S, n) ==
    IF n = 0 THEN {<<>>}
    ELSE LET shorter == SeqsUpTo(S, n - 1)
         IN  shorter \cup {Append(t, b) : t \in shorter, b \in S}

TextHi == <<104, 105>>
TextHello == <<72, 101, 108, 108, 111>>
TextX == <<120>>
TextCENTER == <<67, 69, 78, 84, 69, 82>>

(* Payloads that hold the String Terminator, alone and inside other bytes. *)
TextTerminator == <<ESC, BACKSLASH>>
TextEmbedded == <<120, ESC, BACKSLASH, 120>>

ExampleTexts ==
    {TextHi, TextHello, TextX, TextCENTER, <<SPACE>>, TextTerminator, TextEmbedded}

Texts == SeqsUpTo(TextBytes, MaxTextLen) \cup ExampleTexts

ScaleVals == 1..MaxScale
WidthVals == 0..MaxWidth
FractionVals == 0..MaxFraction

(* The general encoders are called with every combination of the values   *)
(* below (both ends of each range and the values next to the default; for  *)
(* the fraction zero, valid pairs, d = n, d < n and two-digit values), and *)
(* with every scale and width of the documented ranges next to a set or    *)
(* unset fraction and alignment.                                           *)
ScaleSample == {1, 2, MaxScale}
WidthSample == {0, 1, 2, MaxWidth}
FractionSample == {0, 1, 2, 3, 10, MaxFraction}

VerticalAligns == {"top", "bottom", "center"}
HorizontalAligns == {"left", "right", "center"}

(* An optional property: absent, or present with one of the values. *)
Optional(name, values) == {<<>>} \cup {name :> v : v \in values}

TsParamSets ==
    {s @@ w @@ n @@ d @@ v @@ h :
        s \in Optional("scale", ScaleSample),
        w \in Optional("width", WidthSample),
        n \in Optional("numerator", FractionSample),
        d \in Optional("denominator", FractionSample),
        v \in Optional("verticalAlign", VerticalAligns),
        h \in Optional("horizontalAlign", HorizontalAligns)}
    \cup
    {s @@ w @@ n @@ d @@ v @@ h :
        s \in Optional("scale", ScaleVals),
        w \in Optional("width", WidthVals),
        n \in Optional("numerator", {1}),
        d \in Optional("denominator", {2}),
        v \in Optional("verticalAlign", {"center"}),
        h \in Optional("horizontalAlign", {"right"})}

ZigParamSets ==
    [scale : ScaleSample, width : WidthSample,
     numerator : FractionSample, denominator : FractionSample,
     vertical_align : VerticalAligns, horizontal_align : HorizontalAligns]
    \cup
    [scale : ScaleVals, width : WidthVals,
     numerator : {0, 1}, denominator : {0, 2},
     vertical_align : {"top", "center"}, horizontal_align : {"left", "right"}]

(* Values a caller can pass although they lie outside the documented       *)
(* ranges: `number` in TypeScript, u8 in Zig.                              *)
MaxU8 == 255

TsUncheckedParamSets ==
    {s @@ w @@ n @@ d @@ h :
        s \in Optional("scale", {0, MaxScale + 1, MaxU8}),
        w \in Optional("width", {MaxWidth + 1}),
        n \in Optional("numerator", {1, MaxFraction + 1}),
        d \in Optional("denominator", {MaxFraction + 2, MaxU8}),
        h \in Optional("horizontalAlign", {"center"})}

ZigUncheckedParamSets ==
    [scale : {0, 1, MaxScale + 1, MaxU8}, width : {0, MaxWidth + 1},
     numerator : {0, 1, MaxFraction + 1}, denominator : {0, MaxFraction + 2, MaxU8},
     vertical_align : {"top"}, horizontal_align : {"left", "center"}]

WriterCaps == {Unlimited} \cup 0..MaxCap

(* TextSizingParams{}: every field at its declared default. *)
ZigDefaultParams ==
    [scale |-> 1, width |-> 0, numerator |-> 0, denominator |-> 0,
     vertical_align |-> "top", horizontal_align |-> "left"]

(* The callers of the encoders: two threads of the host. *)
Callers == {"a", "b"}

(* The frame of a caller that is in no call. *)
Idle == [pc |-> "idle"]

(* No encoder has been called. *)
NoCallYet ==
    /\ call = "none"
    /\ args = <<>>
    /\ text = <<>>
    /\ out = <<>>
    /\ result = "none"
    /\ cap = Unlimited
    /\ sink = NewWriter(Unlimited)
    /\ log = <<>>
    /\ frames = [c \in Callers |-> Idle]
    /\ heap = <<>>

(***************************************************************************)
(* The markdown renderers that write OSC 66: parseMarkdown of              *)
(* markdown-editor-demo.ts ("editor") and parseMarkdownWithSizing of the   *)
(* markdown preview demo ("preview").  A string is a sequence of UTF-16    *)
(* code units; the document is split into lines, each line pushes strings  *)
(* onto the output array, and the array is joined with newlines.           *)
(***************************************************************************)
Sgr(n) == <<ESC, LBRACKET, DIGIT0 + n, CH_m>>

(* String.prototype.split on a single separator. *)
RECURSIVE split(_, _)
split(str, sep) ==
    IF \A i \in 1..Len(str) : str[i] # sep THEN <<str>>
    ELSE LET i == CHOOSE j \in 1..Len(str) :
                      str[j] = sep /\ \A k \in 1..(j - 1) : str[k] # sep
         IN  <<SubSeq(str, 1, i - 1)>> \o split(SubSeq(str, i + 1, Len(str)), sep)

startsWith(str, prefix) ==
    Len(str) >= Len(prefix) /\ SubSeq(str, 1, Len(prefix)) = prefix

(* '.' of a regular expression: any code unit but a line terminator. *)
IsDot(c) == c \notin {NEWLINE, CARRIAGE, 8232, 8233}

(* '\s' of a regular expression, and what trim() removes. *)
IsSpace(c) ==
    \/ c \in {9, NEWLINE, 11, 12, CARRIAGE, SPACE, 160, 5760, 8232, 8233, 65279}
    \/ c \in 8192..8202
    \/ c \in {8239, 8287, 12288}

(* line.match(/^#{level} (.+)$/) *)
headerMatch(line, level) ==
    /\ Len(line) >= level + 2
    /\ \A i \in 1..level : line[i] = HASH
    /\ line[level + 1] = SPACE
    /\ \A i \in (level + 2)..Len(line) : IsDot(line[i])

headerText(line, level) == SubSeq(line, level + 2, Len(line))

(* line.match(/^---+$/) *)
ruleMatch(line) == Len(line) >= 3 /\ \A i \in 1..Len(line) : line[i] = DASH

(* indentMatch[0]: the leading white space of the line. *)
indentOf(line) ==
    LET blanks == {n \in 0..Len(line) : \A i \in 1..n : IsSpace(line[i])}
    IN  SubSeq(line, 1, CHOOSE n \in blanks : \A m \in blanks : m <= n)

(* line.match(/^[\s]*[-*+] /) *)
listMatch(line) ==
    LET n == Len(indentOf(line))
    IN  /\ Len(line) >= n + 2
        /\ line[n + 1] \in {DASH, STAR, PLUS}
        /\ line[n + 2] = SPACE

(* line.trim() is not empty. *)
trimTruthy(line) == \E i \in 1..Len(line) : ~IsSpace(line[i])

MatchAt(str, i, delim) ==
    /\ i + Len(delim) - 1 <= Len(str)
    /\ SubSeq(str, i, i + Len(delim) - 1) = delim

(* Where the closing delimiter of a lazy delim(.+?)delim match can start. *)
Closings(str, i, delim) ==
    {j \in (i + Len(delim) + 1)..Len(str) :
        /\ MatchAt(str, j, delim)
        /\ \A k \in (i + Len(delim))..(j - 1) : IsDot(str[k])}

Least(S) == CHOOSE x \in S : \A y \in S : x <= y

(* str.replace(/delim(.+?)delim/g, pre + "$1" + post), from position i on. *)
RECURSIVE replaceFrom(_, _, _, _, _)
replaceFrom(str, i, delim, pre, post) ==
    IF i > Len(str) THEN <<>>
    ELSE IF MatchAt(str, i, delim) /\ Closings(str, i, delim) # {}
         THEN LET j == Least(Closings(str, i, delim))
              IN  pre \o SubSeq(str, i + Len(delim), j - 1) \o post
                      \o replaceFrom(str, j + Len(delim), delim, pre, post)
         ELSE <<str[i]>> \o replaceFrom(str, i + 1, delim, pre, post)

(* processInlineFormatting / processInline: bold, then italic, then code. *)
processInlineFormatting(renderer, str) ==
    LET bolded == replaceFrom(str, 1, <<STAR, STAR>>, Sgr(1), Sgr(0))
        italic == replaceFrom(bolded, 1, <<STAR>>, Sgr(3), Sgr(0))
    IN  replaceFrom(italic, 1, <<BACKTICK>>,
                    IF renderer = "editor" THEN Sgr(2) \o Sgr(7) ELSE Sgr(2), Sgr(0))

repeat(c, n) == [i \in 1..n |-> c]

(* Variant: a third-level header is rendered at 3x like a first-level one. *)
headerScale_ThirdLevelThree(level) == 3

(* The scale of a header of level 1, 2 or 3. *)
headerScale(level) == IF level = 1 THEN 3 ELSE 2

(* What one iteration of the loop pushes onto the output array. *)
linePushes(renderer, line, inCodeBlock) ==
    IF startsWith(line, <<BACKTICK, BACKTICK, BACKTICK>>) THEN <<>>
    ELSE IF inCodeBlock THEN <<<<SPACE, SPACE>> \o line>>
    ELSE IF headerMatch(line, 1)
         THEN <<scaledText(headerScale(1), headerText(line, 1)), <<>>, <<>>>>
    ELSE IF headerMatch(line, 2)
         THEN <<scaledText(headerScale(2), headerText(line, 2)), <<>>>>
    ELSE IF headerMatch(line, 3)
         THEN <<scaledText(headerScale(3), headerText(line, 3)), <<>>>>
    ELSE IF headerMatch(line, 4)
         THEN <<Sgr(1) \o headerText(line, 4) \o Sgr(0), <<>>>>
    ELSE IF headerMatch(line, 5)
         THEN <<Sgr(1) \o headerText(line, 5) \o Sgr(0)>>
    ELSE IF headerMatch(line, 6)
         THEN <<(IF renderer = "editor" THEN Sgr(2) \o Sgr(1) ELSE Sgr(2))
                    \o headerText(line, 6) \o Sgr(0)>>
    ELSE IF ruleMatch(line)
         THEN <<repeat(HLINE, IF renderer = "editor" THEN 40 ELSE 60)>>
    ELSE IF startsWith(line, <<GREATER, SPACE>>)
         THEN <<Sgr(2) \o <<VLINE, SPACE>> \o SubSeq(line, 3, Len(line)) \o Sgr(0)>>
    ELSE IF listMatch(line)
         THEN <<indentOf(line) \o <<BULLET, SPACE>>
                    \o processInlineFormatting(renderer,
                           SubSeq(line, Len(indentOf(line)) + 3, Len(line)))>>
    ELSE IF trimTruthy(line) THEN <<processInlineFormatting(renderer, line)>>
    ELSE <<<<>>>>

(* The loop over the lines: the pushes of every line, in order. *)
RECURSIVE loopPushes(_, _, _)
loopPushes(renderer, lines, inCodeBlock) ==
    IF lines = <<>> THEN <<>>
    ELSE LET line == Head(lines)
             fence == startsWith(line, <<BACKTICK, BACKTICK, BACKTICK>>)
         IN  <<linePushes(renderer, line, inCodeBlock)>>
                 \o loopPushes(renderer, Tail(lines),
                               IF fence THEN ~inCodeBlock ELSE inCodeBlock)

RECURSIVE concat(_)
concat(seqs) == IF seqs = <<>> THEN <<>> ELSE Head(seqs) \o concat(Tail(seqs))

(* parseMarkdown / parseMarkdownWithSizing *)
parseMarkdown(renderer, markdown) ==
    Join(concat(loopPushes(renderer, split(markdown, NEWLINE), FALSE)), <<NEWLINE>>)

MdRenderers == {"editor", "preview"}

(* The lines the documents are made of. *)
MdLineSamples ==
    {<<>>,
     <<120>>,
     <<HASH, SPACE, 120>>,
     <<HASH, HASH, SPACE, 120>>,
     <<HASH, HASH, HASH, SPACE, 120>>,
     <<HASH, HASH, HASH, HASH, SPACE, 120>>,
     <<HASH, HASH, HASH, HASH, HASH, SPACE, 120>>,
     <<HASH, HASH, HASH, HASH, HASH, HASH, SPACE, 120>>,
     <<HASH, 120>>,
     <<HASH, SPACE, 120, CARRIAGE>>,
     <<BACKTICK, BACKTICK, BACKTICK>>,
     <<BACKTICK, BACKTICK, BACKTICK, 120>>,
     <<DASH, DASH, DASH>>,
     <<GREATER, SPACE, 120>>,
     <<SPACE, DASH, SPACE, STAR, 120, STAR>>,
     <<8195, DASH, SPACE, 120>>,
     <<STAR, STAR, 120, STAR, STAR, SPACE, BACKTICK, 120, BACKTICK>>}

MdDocuments == UNION {[1..n -> MdLineSamples] : n \in 1..MaxLines}

(***************************************************************************)
(* The markdown editors: markdown-editor-demo.ts ("sizing", its preview is *)
(* the string of parseMarkdown) and the styled markdown editor ("styled",  *)
(* its preview is a StyledText, a list of chunks).                         *)
(***************************************************************************)
Chunk(str, attributes, colour, size) ==
    [text |-> str, attributes |-> attributes, fg |-> colour, scale |-> size]

Plain(str) == Chunk(str, {}, "none", 0)

(* The three literals of the styled parseMarkdown, as the code units the   *)
(* source file holds: the UTF-8 bytes of U+2500, U+2502 and U+2022 read as *)
(* Windows-1252.                                                           *)
StyledRule == <<226, 8221, 8364>>

StyledBar == <<226, 8221, 8218>>

StyledBullet == <<226, 8364, 162>>

(* str.repeat(n) *)
RECURSIVE repeatString(_, _)
repeatString(str, n) == IF n = 0 THEN <<>> ELSE str \o repeatString(str, n - 1)

(* The alternatives of the inline pattern, in the order they are tried. *)
InlineDelims == << <<STAR, STAR>>, <<STAR>>, <<BACKTICK>> >>

InlineMatches(str, i, k) ==
    MatchAt(str, i, InlineDelims[k]) /\ Closings(str, i, InlineDelims[k]) # {}

InlineChunk(k, inner) ==
    CASE k = 1 -> Chunk(inner, {"bold"}, "none", 0)
      [] k = 2 -> Chunk(inner, {}, "#A5D6FF", 0)
      [] OTHER -> Chunk(inner, {"dim"}, "none", 0)

(* The regex.exec loop of the styled processInlineFormatting. *)
RECURSIVE inlineChunksFrom(_, _, _)
inlineChunksFrom(str, i, lastIndex) ==
    IF i > Len(str)
    THEN IF lastIndex <= Len(str) THEN <<Plain(SubSeq(str, lastIndex, Len(str)))>>
         ELSE <<>>
    ELSE IF \E k \in 1..3 : InlineMatches(str, i, k)
         THEN LET k == Least({a \in 1..3 : InlineMatches(str, i, a)})
                  d == InlineDelims[k]
                  j == Least(Closings(str, i, d))
              IN  (IF i > lastIndex THEN <<Plain(SubSeq(str, lastIndex, i - 1))>>
                   ELSE <<>>)
                  \o <<InlineChunk(k, SubSeq(str, i + Len(d), j - 1))>>
                  \o inlineChunksFrom(str, j + Len(d), j + Len(d))
         ELSE inlineChunksFrom(str, i + 1, lastIndex)

styledInlineFormatting(str) ==
    LET chunks == inlineChunksFrom(str, 1, 1)
    IN  IF Len(chunks) > 0 THEN chunks ELSE <<Plain(str)>>

(* What one iteration of the styled parseMarkdown pushes onto chunks. *)
styledLineChunks(line, inCodeBlock) ==
    IF startsWith(line, <<BACKTICK, BACKTICK, BACKTICK>>) THEN <<>>
    ELSE IF inCodeBlock
         THEN <<Chunk(<<SPACE, SPACE>> \o line \o <<NEWLINE>>, {"dim"}, "none", 0)>>
    ELSE IF headerMatch(line, 1)
         THEN <<Chunk(headerText(line, 1), {"bold"}, "#58A6FF", 3),
                Plain(<<NEWLINE, NEWLINE>>)>>
    ELSE IF headerMatch(line, 2)
         THEN <<Chunk(headerText(line, 2), {"bold"}, "#6BCF7F", 2),
                Plain(<<NEWLINE, NEWLINE>>)>>
    ELSE IF headerMatch(line, 3)
         THEN <<Chunk(headerText(line, 3), {"bold"}, "#F778BA", 2), Plain(<<NEWLINE>>)>>
    ELSE IF headerMatch(line, 4)
         THEN <<Chunk(headerText(line, 4), {"bold"}, "none", 0), Plain(<<NEWLINE>>)>>
    ELSE IF headerMatch(line, 5)
         THEN <<Chunk(headerText(line, 5), {"bold", "dim"}, "none", 0), Plain(<<NEWLINE>>)>>
    ELSE IF headerMatch(line, 6)
         THEN <<Chunk(headerText(line, 6), {"dim"}, "none", 0), Plain(<<NEWLINE>>)>>
    ELSE IF ruleMatch(line)
         THEN <<Chunk(repeatString(StyledRule, 40) \o <<NEWLINE>>, {"dim"}, "none", 0)>>
    ELSE IF startsWith(line, <<GREATER, SPACE>>)
         THEN <<Chunk(StyledBar \o <<SPACE>> \o SubSeq(line, 3, Len(line)) \o <<NEWLINE>>,
                      {"dim"}, "none", 0)>>
    ELSE IF listMatch(line)
         THEN <<Plain(indentOf(line) \o StyledBullet \o <<SPACE>>)>>
              \o styledInlineFormatting(SubSeq(line, Len(indentOf(line)) + 3, Len(line)))
              \o <<Plain(<<NEWLINE>>)>>
    ELSE IF trimTruthy(line)
         THEN styledInlineFormatting(line) \o <<Plain(<<NEWLINE>>)>>
    ELSE <<Plain(<<NEWLINE>>)>>

RECURSIVE styledLoop(_, _)
styledLoop(lines, inCodeBlock) ==
    IF lines = <<>> THEN <<>>
    ELSE LET line == Head(lines)
             fence == startsWith(line, <<BACKTICK, BACKTICK, BACKTICK>>)
         IN  styledLineChunks(line, inCodeBlock)
                 \o styledLoop(Tail(lines), IF fence THEN ~inCodeBlock ELSE inCodeBlock)

(* parseMarkdown of the styled editor: a StyledText. *)
parseMarkdownStyled(markdown) ==
    IF markdown = <<>> THEN [chunks |-> <<Plain(<<>>)>>]
    ELSE [chunks |-> styledLoop(split(markdown, NEWLINE), FALSE)]

(* updatePreview: what previewText.content becomes. *)
updatePreview(variant, markdown) ==
    IF variant = "sizing" THEN parseMarkdown("editor", markdown)
    ELSE IF markdown = <<>> THEN <<>>
    ELSE parseMarkdownStyled(markdown)

EdVariants == {"sizing", "styled"}

(* INITIAL_MARKDOWN, cut down to its first header and one paragraph. *)
InitialMarkdown == <<HASH, SPACE, 120, NEWLINE, 120>>

(* What the user turns the text into. *)
EdValues == {<<>>, InitialMarkdown, <<HASH, HASH, SPACE, 120>>}

KeyNames == {"i", "j", "$", "G", "escape", "x"}

KeyEvents == [name : KeyNames, ctrl : BOOLEAN, alt : BOOLEAN, shift : BOOLEAN,
              sequence : BOOLEAN]

NoEvent == [op |-> "none"]

EdNotLoaded(variant) ==
    /\ edVariant = variant
    /\ edEditor = "null"
    /\ edValue = <<>>
    /\ vimMode = "normal"
    /\ previewContent = <<>>
    /\ previewShown = <<>>
    /\ edListeners = 0
    /\ edCallbacks = 0
    /\ edTitle = "none"
    /\ edFocused = FALSE
    /\ edLast = NoEvent

(* The vim command a key names in normal mode, "none" if it names none. *)
normalCommand(key) ==
    IF key.name = "i" /\ ~key.ctrl /\ ~key.alt /\ ~key.shift THEN "insert"
    ELSE IF key.name \in {"h", "j", "k", "l", "w", "b", "0", "g"} /\ ~key.ctrl /\ ~key.alt
         THEN IF key.name = "g" THEN "top" ELSE "move"
    ELSE IF key.name = "$" /\ ~key.shift /\ ~key.ctrl /\ ~key.alt THEN "move"
    ELSE IF key.name = "G" /\ key.shift /\ ~key.ctrl /\ ~key.alt THEN "bottom"
    ELSE "none"

(* Variant: shift+i also enters insert mode. *)
handleNormalMode_ShiftInserts(variant, editor, key) ==
    IF editor = "null" THEN [mode |-> "normal", set |-> FALSE, prevented |-> FALSE]
    ELSE IF key.name = "i" /\ ~key.ctrl /\ ~key.alt
         THEN [mode |-> "insert", set |-> TRUE, prevented |-> TRUE]
    ELSE IF normalCommand(key) # "none"
         THEN [mode |-> "normal", set |-> FALSE, prevented |-> TRUE]
    ELSE [mode |-> "normal", set |-> FALSE,
          prevented |-> (variant = "styled" /\ key.sequence /\ ~key.ctrl)]

(* Variant: only the keys that are vim commands are default-prevented. *)
handleNormalMode_CommandsOnly(variant, editor, key) ==
    IF editor = "null" THEN [mode |-> "normal", set |-> FALSE, prevented |-> FALSE]
    ELSE IF normalCommand(key) = "insert"
         THEN [mode |-> "insert", set |-> TRUE, prevented |-> TRUE]
    ELSE [mode |-> "normal", set |-> FALSE, prevented |-> normalCommand(key) # "none"]

(* handleNormalMode: the mode after it, whether it called setVimMode and   *)
(* whether it called key.preventDefault().                                 *)
handleNormalMode(variant, editor, key) ==
    IF editor = "null" THEN [mode |-> "normal", set |-> FALSE, prevented |-> FALSE]
    ELSE IF normalCommand(key) = "insert"
         THEN [mode |-> "insert", set |-> TRUE, prevented |-> TRUE]
    ELSE IF normalCommand(key) # "none"
         THEN [mode |-> "normal", set |-> FALSE, prevented |-> TRUE]
    ELSE [mode |-> "normal", set |-> FALSE,
          prevented |-> (variant = "styled" /\ key.sequence /\ ~key.ctrl)]

handleInsertMode(key) ==
    IF key.name = "escape" THEN [mode |-> "normal", set |-> TRUE, prevented |-> TRUE]
    ELSE [mode |-> "insert", set |-> FALSE, prevented |-> FALSE]

(* The keypress listeners, one per run(), called one after the other on    *)
(* the same event; byNormal tells whether handleNormalMode prevented it.   *)
RECURSIVE dispatch(_, _, _, _, _)
dispatch(n, variant, editor, key, st) ==
    IF n = 0 THEN st
    ELSE LET r == IF st.mode = "normal" THEN handleNormalMode(variant, editor, key)
                  ELSE handleInsertMode(key)
         IN  dispatch(n - 1, variant, editor, key,
                      [mode |-> r.mode,
                       set |-> IF r.set THEN r.mode ELSE st.set,
                       prevented |-> st.prevented \/ r.prevented,
                       byNormal |-> st.byNormal \/ (st.mode = "normal" /\ r.prevented)])

(***************************************************************************)
(* The text-sizing demo: runDemo and the signal handlers of the script.    *)
(* What is written to stdout is kept as a sequence of the pieces that      *)
(* matter: "CLEAR", "HIDE" (ESC[?25l), "SHOW" (ESC[?25h), "RESET", and     *)
(* "TEXT" for every other write.                                           *)
(***************************************************************************)
(* The number of process.stdout.write statements of the try block before   *)
(* each await sleep(...), and after the last one.                          *)
DemoWrites == <<2, 6, 9, 7, 5, 7, 3, 7, 3, 2, 3>>

DemoSignals == {"SIGINT", "SIGTERM"}

(* The script is loaded: the handlers are registered, runDemo not called.  *)
DemoNotStarted ==
    /\ demoStage = "loaded"
    /\ demoSeg = 1
    /\ demoDone = 0
    /\ demoAsleep = FALSE
    /\ demoThrown = FALSE
    /\ demoOut = <<>>
    /\ demoExit = [code |-> -1, path |-> "none"]

MdIdle ==
    /\ mdRenderer = "editor"
    /\ mdLines = <<<<>>>>
    /\ mdPushes = <<>>
    /\ mdOut = <<>>
    /\ mdDone = FALSE

AppsNotStarted ==
    /\ MdIdle
    /\ EdNotLoaded("sizing")
    /\ DemoNotStarted

(***************************************************************************)
(* The capability probe protocol.  The query strings are constants of      *)
(* ansi.zig; the exchange itself (terminal.zig) follows the protocol's     *)
(* description: a probe goes NotProbed -> ProbeSent -> AwaitingReply ->    *)
(* Resolved, its flag starts false, the terminal answers the position      *)
(* requests in the order it received them, and a reply is matched to a     *)
(* probe by its position in that order.  A position report is reduced to   *)
(* the cursor advance it reports for the probe's sequence.                 *)
(***************************************************************************)
cursorPositionRequest == <<ESC, LBRACKET, DIGIT0 + 6, CH_n>>

(* Variant: the payload space is missing from the width query. *)
explicitWidthQuery_NoPayload ==
    <<ESC, RBRACKET, DIGIT0 + 6, DIGIT0 + 6, SEMI, CH_w, EQUALS, DIGIT0 + 1, SEMI,
      ESC, BACKSLASH>>

explicitWidthQuery ==
    <<ESC, RBRACKET, DIGIT0 + 6, DIGIT0 + 6, SEMI, CH_w, EQUALS, DIGIT0 + 1, SEMI,
      SPACE, ESC, BACKSLASH>>

(* Variant: the query ends with BEL instead of the String Terminator. *)
scaledTextQuery_BellTerminated ==
    <<ESC, RBRACKET, DIGIT0 + 6, DIGIT0 + 6, SEMI, CH_s, EQUALS, DIGIT0 + 2, SEMI,
      SPACE, 7>>

scaledTextQuery ==
    <<ESC, RBRACKET, DIGIT0 + 6, DIGIT0 + 6, SEMI, CH_s, EQUALS, DIGIT0 + 2, SEMI,
      SPACE, ESC, BACKSLASH>>

Probes == {"width", "scale"}

ProbeQuery(p) == IF p = "width" THEN explicitWidthQuery ELSE scaledTextQuery

(* Columns a single, unscaled space occupies. *)
SpaceWidth == 1

(* A terminal: whether it answers position requests at all, and by how     *)
(* many columns each probe's sequence moves its cursor.                    *)
Terminals == [answers : BOOLEAN, advance : [Probes -> 0..MaxAdvance]]

SilentTerminal == [answers |-> FALSE, advance |-> [p \in Probes |-> 0]]

Unresolved == [by |-> "none", advance |-> 0, index |-> 0]

NotProbedYet(t) ==
    /\ pstate = [p \in Probes |-> "NotProbed"]
    /\ flag = [p \in Probes |-> FALSE]
    /\ wire = <<>>
    /\ sentOrder = <<>>
    /\ term = t
    /\ answered = 0
    /\ replies = <<>>
    /\ readCount = 0
    /\ resolution = [p \in Probes |-> Unresolved]
    /\ overlap = FALSE
    /\ alive = TRUE

InitProbe ==
    /\ NoCallYet
    /\ AppsNotStarted
    /\ \E t \in Terminals : NotProbedYet(t)

(* Variant: sending a probe also starts waiting for its reply. *)
SendProbe_SkipsProbeSent(p) ==
    /\ alive
    /\ pstate[p] = "NotProbed"
    /\ pstate' = [pstate EXCEPT ![p] = "AwaitingReply"]
    /\ wire' = wire \o ProbeQuery(p) \o cursorPositionRequest
    /\ sentOrder' = Append(sentOrder, p)
    /\ overlap' = (overlap \/ \E q \in Probes \ {p} :
                                  pstate[q] \in {"ProbeSent", "AwaitingReply"})
    /\ UNCHANGED <<flag, term, answered, replies, readCount, resolution, alive, encoderVars, appVars>>

(* The query and the position request are written to the terminal. *)
SendProbe(p) ==
    /\ alive
    /\ pstate[p] = "NotProbed"
    /\ pstate' = [pstate EXCEPT ![p] = "ProbeSent"]
    /\ wire' = wire \o ProbeQuery(p) \o cursorPositionRequest
    /\ sentOrder' = Append(sentOrder, p)
    /\ overlap' = (overlap \/ \E q \in Probes \ {p} :
                                  pstate[q] \in {"ProbeSent", "AwaitingReply"})
    /\ UNCHANGED <<flag, term, answered, replies, readCount, resolution, alive, encoderVars, appVars>>

(* The prober starts waiting for the reply. *)
AwaitReply(p) ==
    /\ alive
    /\ pstate[p] = "ProbeSent"
    /\ pstate' = [pstate EXCEPT ![p] = "AwaitingReply"]
    /\ UNCHANGED <<flag, wire, sentOrder, term, answered, replies, readCount,
                   resolution, overlap, alive, encoderVars, appVars>>

(* The terminal answers the oldest position request it has not answered. *)
TerminalAnswers ==
    /\ term.answers
    /\ answered < Len(sentOrder)
    /\ answered' = answered + 1
    /\ replies' = Append(replies, [advance |-> term.advance[sentOrder[answered + 1]]])
    /\ UNCHANGED <<pstate, flag, wire, sentOrder, term, readCount, resolution,
                   overlap, alive, encoderVars, appVars>>

(* The probe a reply belongs to, and what reading it does. *)
Resolve(p, r, threshold) ==
    /\ \E q \in Probes : pstate[q] = "AwaitingReply"
    /\ pstate[p] \in {"AwaitingReply", "Resolved"}
    /\ replies' = Tail(replies)
    /\ readCount' = readCount + 1
    /\ IF pstate[p] = "AwaitingReply"
       THEN /\ pstate' = [pstate EXCEPT ![p] = "Resolved"]
            /\ flag' = [flag EXCEPT ![p] = r.advance > threshold]
            /\ resolution' = [resolution EXCEPT
                                 ![p] = [by |-> "reply", advance |-> r.advance,
                                         index |-> readCount + 1]]
       ELSE UNCHANGED <<pstate, flag, resolution>>
    /\ UNCHANGED <<wire, sentOrder, term, answered, overlap, alive, encoderVars, appVars>>

(* Variant: the cursor has only to advance by the width of a space. *)
ReadReply_AtLeastSpace ==
    /\ alive
    /\ Len(replies) > 0
    /\ Resolve(sentOrder[readCount + 1], Head(replies), SpaceWidth - 1)

(* Variant: a reply goes to the probe that was sent last. *)
ReadReply_NewestFirst ==
    /\ alive
    /\ Len(replies) > 0
    /\ Resolve(sentOrder[Len(sentOrder) - readCount], Head(replies), SpaceWidth)

(* The next reply is read: it belongs to the next probe in sending order. *)
(* A reply for a probe that has timed out is dropped.                      *)
ReadReply ==
    /\ alive
    /\ Len(replies) > 0
    /\ Resolve(sentOrder[readCount + 1], Head(replies), SpaceWidth)

(* Variant: a probe without reply counts as supported. *)
Timeout_FailOpen(p) ==
    /\ alive
    /\ pstate[p] = "AwaitingReply"
    /\ pstate' = [pstate EXCEPT ![p] = "Resolved"]
    /\ flag' = [flag EXCEPT ![p] = TRUE]
    /\ resolution' = [resolution EXCEPT ![p] = [by |-> "timeout", advance |-> 0,
                                                index |-> 0]]
    /\ UNCHANGED <<wire, sentOrder, term, answered, replies, readCount, overlap,
                   alive, encoderVars, appVars>>

(* Variant: one timer resolves every waiting probe. *)
Timeout_SharedTimer(p) ==
    /\ alive
    /\ pstate[p] = "AwaitingReply"
    /\ pstate' = [q \in Probes |->
                     IF pstate[q] = "AwaitingReply" THEN "Resolved" ELSE pstate[q]]
    /\ resolution' = [q \in Probes |->
                         IF pstate[q] = "AwaitingReply"
                         THEN [by |-> "timeout", advance |-> 0, index |-> 0]
                         ELSE resolution[q]]
    /\ UNCHANGED <<flag, wire, sentOrder, term, answered, replies, readCount, overlap,
                   alive, encoderVars, appVars>>

(* The external timeout fires: the probe resolves to false. *)
Timeout(p) ==
    /\ alive
    /\ pstate[p] = "AwaitingReply"
    /\ pstate' = [pstate EXCEPT ![p] = "Resolved"]
    /\ flag' = [flag EXCEPT ![p] = FALSE]
    /\ resolution' = [resolution EXCEPT ![p] = [by |-> "timeout", advance |-> 0,
                                                index |-> 0]]
    /\ UNCHANGED <<wire, sentOrder, term, answered, replies, readCount, overlap,
                   alive, encoderVars, appVars>>

NextProbe ==
    \/ \E p \in Probes : SendProbe(p)
    \/ \E p \in Probes : AwaitReply(p)
    \/ TerminalAnswers
    \/ ReadReply
    \/ \E p \in Probes : Timeout(p)

SpecProbe == InitProbe /\ [][NextProbe]_vars

(* Variant: a reply that arrives after the teardown is still interpreted. *)
Teardown_StillReading ==
    /\ alive
    /\ alive' = FALSE
    /\ LET late == {p \in Probes : pstate[p] \in {"ProbeSent", "AwaitingReply"}
                                  /\ term.answers}
       IN  flag' = [p \in Probes |->
                       IF p \in late THEN term.advance[p] > SpaceWidth ELSE flag[p]]
    /\ UNCHANGED <<pstate, wire, sentOrder, term, answered, replies, readCount,
                   resolution, overlap, encoderVars, appVars>>

(* The host process is torn down: the prober stops, and the flags keep the *)
(* values they have.                                                       *)
Teardown ==
    /\ alive
    /\ alive' = FALSE
    /\ UNCHANGED <<pstate, flag, wire, sentOrder, term, answered, replies, readCount,
                   resolution, overlap, encoderVars, appVars>>

NextTeardown ==
    \/ NextProbe
    \/ Teardown

SpecTeardown == InitProbe /\ [][NextTeardown]_vars

(* The prober goes on to wait after sending, and the external timeout      *)
(* fires for a probe that keeps waiting.                                   *)
FairSpecProbe ==
    /\ SpecProbe
    /\ \A p \in Probes : WF_vars(AwaitReply(p))
    /\ \A p \in Probes : WF_vars(Timeout(p))

(***************************************************************************)
(* A renderer applied to a document.                                       *)
(***************************************************************************)
InitMarkdown ==
    /\ NoCallYet
    /\ NotProbedYet(SilentTerminal)
    /\ EdNotLoaded("sizing")
    /\ DemoNotStarted
    /\ mdRenderer \in MdRenderers
    /\ mdLines \in MdDocuments
    /\ mdPushes = <<>>
    /\ mdOut = <<>>
    /\ mdDone = FALSE

(* The renderer is called on the document. *)
ParseMarkdown ==
    /\ ~mdDone
    /\ mdDone' = TRUE
    /\ mdPushes' = loopPushes(mdRenderer, split(Join(mdLines, <<NEWLINE>>), NEWLINE),
                              FALSE)
    /\ mdOut' = parseMarkdown(mdRenderer, Join(mdLines, <<NEWLINE>>))
    /\ UNCHANGED <<mdRenderer, mdLines, encoderVars, probeVars, edVars, demoVars>>

NextMarkdown == ParseMarkdown

SpecMarkdown == InitMarkdown /\ [][NextMarkdown]_vars

(***************************************************************************)
(* The operations of a markdown editor.                                    *)
(***************************************************************************)
(* run(): the editor is created with INITIAL_MARKDOWN, the mode is set to  *)
(* normal, the preview is rendered, and one more keypress listener and one *)
(* more frame callback are registered.                                     *)
EdRun ==
    /\ edEditor = "null"
    /\ edListeners < MaxRuns
    /\ edEditor' = "live"
    /\ edValue' = InitialMarkdown
    /\ vimMode' = "normal"
    /\ edTitle' = "NORMAL"
    /\ edFocused' = (edVariant = "styled")
    /\ edCallbacks' = edCallbacks + 1
    /\ edListeners' = edListeners + 1
    /\ previewShown' = updatePreview(edVariant, InitialMarkdown)
    /\ previewContent' = IF edVariant = "styled" THEN InitialMarkdown ELSE previewContent
    /\ edLast' = [op |-> "run"]
    /\ UNCHANGED <<edVariant, encoderVars, probeVars, mdVars,
                   demoVars>>

(* A keypress event of the renderer. *)
EdKeypress ==
    /\ edListeners > 0
    /\ \E key \in KeyEvents :
        LET r == dispatch(edListeners, edVariant, edEditor, key,
                          [mode |-> vimMode, set |-> "none", prevented |-> FALSE,
                           byNormal |-> FALSE])
            shown == r.set # "none" /\ edEditor # "null"
        IN  /\ vimMode' = r.mode
            /\ edTitle' = IF ~shown THEN edTitle
                          ELSE IF r.set = "insert" THEN "INSERT" ELSE "NORMAL"
            /\ edFocused' = IF ~shown THEN edFocused
                            ELSE IF r.set = "insert" THEN TRUE
                            ELSE IF edVariant = "sizing" THEN FALSE ELSE edFocused
            /\ edLast' = [op |-> "key", key |-> key, modeBefore |-> vimMode,
                          prevented |-> r.prevented,
                          byNormal |-> r.byNormal]
    /\ UNCHANGED <<edVariant, edEditor, edValue, previewContent, previewShown,
                   edListeners, edCallbacks, encoderVars, probeVars, mdVars,
                   demoVars>>

(* The user changes the text in insert mode. *)
EdEdit ==
    /\ edEditor = "live"
    /\ vimMode = "insert"
    /\ edFocused
    /\ \E v \in EdValues \ {edValue} : edValue' = v
    /\ edLast' = [op |-> "edit"]
    /\ UNCHANGED <<edVariant, edEditor, vimMode, previewContent, previewShown,
                   edListeners, edCallbacks, edTitle, edFocused, encoderVars,
                   probeVars, mdVars,
                   demoVars>>

(* The test of the frame callback: is the preview rendered again? *)
frameRenders(variant, markdown, content) ==
    IF variant = "sizing" THEN markdown # content
    ELSE markdown # <<>> /\ markdown # content

(* The frame callback(s) of the renderer. *)
EdFrame ==
    /\ edCallbacks > 0
    /\ LET runs == edEditor = "live"
           renders == runs /\ frameRenders(edVariant, edValue, previewContent)
       IN  /\ previewContent' = IF renders THEN edValue ELSE previewContent
           /\ previewShown' = IF renders THEN updatePreview(edVariant, edValue)
                              ELSE previewShown
           /\ edLast' = [op |-> "frame", ran |-> runs, rendered |-> renders,
                         differed |-> edValue # previewContent]
    /\ UNCHANGED <<edVariant, edEditor, edValue, vimMode, edListeners, edCallbacks,
                   edTitle, edFocused, encoderVars, probeVars, mdVars,
                   demoVars>>

(* The renderer destroys the editor renderable. *)
EdDispose ==
    /\ edEditor = "live"
    /\ edEditor' = "destroyed"
    /\ edLast' = [op |-> "dispose"]
    /\ UNCHANGED <<edVariant, edValue, vimMode, previewContent, previewShown,
                   edListeners, edCallbacks, edTitle, edFocused, encoderVars,
                   probeVars, mdVars,
                   demoVars>>

(* destroy(): the module forgets the editor; the styled editor also clears *)
(* the frame callbacks.                                                    *)
EdDestroy ==
    /\ edEditor # "null"
    /\ edEditor' = "null"
    /\ edCallbacks' = IF edVariant = "styled" THEN 0 ELSE edCallbacks
    /\ edLast' = [op |-> "destroy"]
    /\ UNCHANGED <<edVariant, edValue, vimMode, previewContent, previewShown,
                   edListeners, edTitle, edFocused, encoderVars, probeVars, mdVars,
                   demoVars>>

InitEditor ==
    /\ NoCallYet
    /\ NotProbedYet(SilentTerminal)
    /\ MdIdle
    /\ DemoNotStarted
    /\ \E variant \in EdVariants : EdNotLoaded(variant)

NextEditor ==
    \/ EdRun
    \/ EdKeypress
    \/ EdEdit
    \/ EdFrame
    \/ EdDispose
    \/ EdDestroy

SpecEditor == InitEditor /\ [][NextEditor]_vars

(***************************************************************************)
(* The steps of the text-sizing demo.                                      *)
(***************************************************************************)
(* runDemo is called: the screen is cleared and the cursor hidden. *)
DemoStart ==
    /\ demoStage = "loaded"
    /\ demoStage' = "try"
    /\ demoOut' = demoOut \o <<"CLEAR", "HIDE">>
    /\ UNCHANGED <<demoSeg, demoDone, demoAsleep, demoThrown, demoExit,
                   encoderVars, probeVars, mdVars, edVars>>

(* The first write throws: it is outside the try block, so the promise of  *)
(* runDemo is rejected and finally is not entered.                         *)
DemoStartThrows ==
    /\ demoStage = "loaded"
    /\ demoStage' = "settled"
    /\ demoThrown' = TRUE
    /\ UNCHANGED <<demoSeg, demoDone, demoAsleep, demoOut, demoExit,
                   encoderVars, probeVars, mdVars, edVars>>

(* The next process.stdout.write of the try block. *)
DemoWrite ==
    /\ demoStage = "try"
    /\ ~demoAsleep
    /\ demoDone < DemoWrites[demoSeg]
    /\ demoDone' = demoDone + 1
    /\ demoOut' = demoOut \o <<"TEXT">>
    /\ UNCHANGED <<demoStage, demoSeg, demoAsleep, demoThrown, demoExit,
                   encoderVars, probeVars, mdVars, edVars>>

(* await sleep(ms): runDemo gives the event loop the turn. *)
DemoSleep ==
    /\ demoStage = "try"
    /\ ~demoAsleep
    /\ demoDone = DemoWrites[demoSeg]
    /\ demoSeg < Len(DemoWrites)
    /\ demoAsleep' = TRUE
    /\ UNCHANGED <<demoStage, demoSeg, demoDone, demoThrown, demoOut, demoExit,
                   encoderVars, probeVars, mdVars, edVars>>

(* The timer fires and runDemo goes on. *)
DemoWake ==
    /\ demoStage = "try"
    /\ demoAsleep
    /\ demoAsleep' = FALSE
    /\ demoSeg' = demoSeg + 1
    /\ demoDone' = 0
    /\ UNCHANGED <<demoStage, demoThrown, demoOut, demoExit,
                   encoderVars, probeVars, mdVars, edVars>>

(* A statement of the try block throws: control goes to finally. *)
DemoThrow ==
    /\ demoStage = "try"
    /\ ~demoAsleep
    /\ demoDone < DemoWrites[demoSeg]
    /\ demoStage' = "finally"
    /\ demoThrown' = TRUE
    /\ UNCHANGED <<demoSeg, demoDone, demoAsleep, demoOut, demoExit,
                   encoderVars, probeVars, mdVars, edVars>>

(* The try block runs to its end: control goes to finally. *)
DemoEndTry ==
    /\ demoStage = "try"
    /\ ~demoAsleep
    /\ demoSeg = Len(DemoWrites)
    /\ demoDone = DemoWrites[demoSeg]
    /\ demoStage' = "finally"
    /\ UNCHANGED <<demoSeg, demoDone, demoAsleep, demoThrown, demoOut, demoExit,
                   encoderVars, probeVars, mdVars, edVars>>

(* The finally block: the cursor is shown; the promise of runDemo settles. *)
DemoFinally ==
    /\ demoStage = "finally"
    /\ demoStage' = "settled"
    /\ demoOut' = demoOut \o <<"SHOW">>
    /\ UNCHANGED <<demoSeg, demoDone, demoAsleep, demoThrown, demoExit,
                   encoderVars, probeVars, mdVars, edVars>>

(* The write of the finally block throws: nothing is written and the      *)
(* promise of runDemo is rejected.                                         *)
DemoFinallyThrows ==
    /\ demoStage = "finally"
    /\ demoStage' = "settled"
    /\ demoThrown' = TRUE
    /\ UNCHANGED <<demoSeg, demoDone, demoAsleep, demoOut, demoExit,
                   encoderVars, probeVars, mdVars, edVars>>

(* runDemo().then(() => process.exit(0)) *)
DemoResolved ==
    /\ demoStage = "settled"
    /\ ~demoThrown
    /\ demoStage' = "exited"
    /\ demoExit' = [code |-> 0, path |-> "normal"]
    /\ UNCHANGED <<demoSeg, demoDone, demoAsleep, demoThrown, demoOut,
                   encoderVars, probeVars, mdVars, edVars>>

(* The promise is rejected and nothing handles it: the runtime exits. *)
DemoRejected ==
    /\ demoStage = "settled"
    /\ demoThrown
    /\ demoStage' = "exited"
    /\ demoExit' = [code |-> 1, path |-> "exception"]
    /\ UNCHANGED <<demoSeg, demoDone, demoAsleep, demoThrown, demoOut,
                   encoderVars, probeVars, mdVars, edVars>>

(* A signal handler; the event loop runs it while runDemo awaits. *)
DemoSignal ==
    /\ demoStage = "try"
    /\ demoAsleep
    /\ \E sig \in DemoSignals :
           demoExit' = [code |-> 0, path |-> sig]
    /\ demoOut' = demoOut \o <<"SHOW", "RESET", "CLEAR">>
    /\ demoStage' = "exited"
    /\ UNCHANGED <<demoSeg, demoDone, demoAsleep, demoThrown,
                   encoderVars, probeVars, mdVars, edVars>>

(* stdout fails while runDemo awaits (the reader closed the pipe): the     *)
(* 'error' event has no listener, the runtime exits, finally never runs.   *)
DemoStdoutError ==
    /\ demoStage = "try"
    /\ demoAsleep
    /\ demoStage' = "exited"
    /\ demoExit' = [code |-> 1, path |-> "uncaught"]
    /\ UNCHANGED <<demoSeg, demoDone, demoAsleep, demoThrown, demoOut,
                   encoderVars, probeVars, mdVars, edVars>>

InitDemo ==
    /\ NoCallYet
    /\ NotProbedYet(SilentTerminal)
    /\ MdIdle
    /\ EdNotLoaded("sizing")
    /\ DemoNotStarted

NextDemo ==
    \/ DemoStart
    \/ DemoStartThrows
    \/ DemoWrite
    \/ DemoSleep
    \/ DemoWake
    \/ DemoThrow
    \/ DemoEndTry
    \/ DemoFinally
    \/ DemoFinallyThrows
    \/ DemoResolved
    \/ DemoRejected
    \/ DemoSignal
    \/ DemoStdoutError

SpecDemo == InitDemo /\ [][NextDemo]_vars

(***************************************************************************)
(* The state machine.  The encoders keep no state between calls, so a      *)
(* behaviour is one call of one encoder on inputs chosen by the caller:    *)
(* call names the encoder, args and text are its inputs, out the bytes it  *)
(* returned (TypeScript) or left in the sink (Zig), result its outcome.    *)
(* sink is the writer as the call left it; log is the history of the calls *)
(* that returned so far, inputs and outcome; frames holds the locals of    *)
(* the calls in progress and heap the arrays they allocated.               *)
(***************************************************************************)
Init ==
    /\ NoCallYet
    /\ NotProbedYet(SilentTerminal)
    /\ AppsNotStarted

LogEntry(name, a, txt, capacity, bytes, res) ==
    [call |-> name, args |-> a, text |-> txt, cap |-> capacity,
     out |-> bytes, result |-> res]

(* A call returns: its inputs and outcome are recorded. *)
Returns(name, a, txt, capacity, bytes, res, w) ==
    /\ call' = name
    /\ args' = a
    /\ text' = txt
    /\ out' = bytes
    /\ result' = res
    /\ cap' = capacity
    /\ sink' = w
    /\ log' = Append(log, LogEntry(name, a, txt, capacity, bytes, res))

TsReturn(name, a, txt, bytes) ==
    /\ Returns(name, a, txt, Unlimited, bytes, "ok", NewWriter(Unlimited))
    /\ UNCHANGED <<frames, heap, probeVars, appVars>>

ZigReturn(name, a, txt, capacity, r) ==
    /\ Returns(name, a, txt, capacity, r.writer.buf,
               IF r.err = "none" THEN "ok" ELSE r.err, r.writer)
    /\ UNCHANGED <<frames, heap, probeVars, appVars>>

CallTextSizing ==
    /\ call = "none"
    /\ \E params \in TsParamSets \cup TsUncheckedParamSets, txt \in Texts :
        TsReturn("textSizing", params, txt, textSizing(params, txt))

CallScaledText ==
    /\ call = "none"
    /\ \E scale \in ScaleVals, txt \in Texts :
        TsReturn("scaledText", [scale |-> scale], txt, scaledText(scale, txt))

CallFractionalText ==
    /\ call = "none"
    /\ \E numerator \in FractionVals, denominator \in FractionVals, txt \in Texts :
        TsReturn("fractionalText", [numerator |-> numerator, denominator |-> denominator],
                 txt, fractionalText(numerator, denominator, txt))

CallTextSizingWithWidth ==
    /\ call = "none"
    /\ \E scale \in ScaleVals, width \in WidthVals, txt \in Texts :
        TsReturn("textSizingWithWidth", [scale |-> scale, width |-> width],
                 txt, textSizingWithWidth(scale, width, txt))

CallExplicitWidth ==
    /\ call = "none"
    /\ \E width \in WidthVals, txt \in Texts :
        TsReturn("explicitWidth", [width |-> width], txt, explicitWidth(width, txt))

CallTextSizingOutput ==
    /\ call = "none"
    /\ \E params \in ZigParamSets \cup ZigUncheckedParamSets,
          txt \in Texts, capacity \in WriterCaps :
        ZigReturn("textSizingOutput", params, txt, capacity,
                  textSizingOutput(NewWriter(capacity), params, txt))

CallScaledTextOutput ==
    /\ call = "none"
    /\ \E scale \in ScaleVals, txt \in Texts, capacity \in WriterCaps :
        ZigReturn("scaledTextOutput", [scale |-> scale], txt, capacity,
                  scaledTextOutput(NewWriter(capacity), scale, txt))

CallFractionalTextOutput ==
    /\ call = "none"
    /\ \E numerator \in FractionVals, denominator \in FractionVals,
          txt \in Texts, capacity \in WriterCaps :
        ZigReturn("fractionalTextOutput",
                  [numerator |-> numerator, denominator |-> denominator], txt, capacity,
                  fractionalTextOutput(NewWriter(capacity), numerator, denominator, txt))

CallTextSizingWithWidthOutput ==
    /\ call = "none"
    /\ \E scale \in ScaleVals, width \in WidthVals, txt \in Texts, capacity \in WriterCaps :
        ZigReturn("textSizingWithWidthOutput", [scale |-> scale, width |-> width],
                  txt, capacity,
                  textSizingWithWidthOutput(NewWriter(capacity), scale, width, txt))

CallExplicitWidthOutput ==
    /\ call = "none"
    /\ \E width \in WidthVals, txt \in Texts, capacity \in WriterCaps :
        ZigReturn("explicitWidthOutput", [width |-> width], txt, capacity,
                  explicitWidthOutput(NewWriter(capacity), width, txt))

Next ==
    \/ CallTextSizing
    \/ CallScaledText
    \/ CallFractionalText
    \/ CallTextSizingWithWidth
    \/ CallExplicitWidth
    \/ CallTextSizingOutput
    \/ CallScaledTextOutput
    \/ CallFractionalTextOutput
    \/ CallTextSizingWithWidthOutput
    \/ CallExplicitWidthOutput

Spec == Init /\ [][Next]_vars

(***************************************************************************)
(* textSizingOutput on the sinks that can fail: the buffers of every       *)
(* capacity and the sinks that refuse one write.                           *)
(***************************************************************************)
SinkParamSets ==
    {ZigDefaultParams,
     [ZigDefaultParams EXCEPT !.scale = 2],
     [ZigDefaultParams EXCEPT !.width = 2, !.horizontal_align = "center"],
     [scale |-> MaxU8, width |-> 10, numerator |-> 1, denominator |-> 2,
      vertical_align |-> "bottom", horizontal_align |-> "right"]}

CallTextSizingOutputRefused ==
    /\ call = "none"
    /\ \E params \in SinkParamSets, txt \in Texts, k \in 1..MaxFailAt :
        ZigReturn("textSizingOutput", params, txt, Unlimited,
                  textSizingOutput(FailingWriter(k), params, txt))

NextSink ==
    \/ CallTextSizingOutput
    \/ CallTextSizingOutputRefused

SpecSink == Init /\ [][NextSink]_vars

(***************************************************************************)
(* Several calls at once: two callers call the encoders again and again,   *)
(* up to MaxCalls calls in all, on a few inputs.  A call of                *)
(* ANSI.textSizing or textSizingOutput is run statement by statement, its  *)
(* locals in the caller's frame; the steps of the two callers interleave.  *)
(* JavaScript runs a call to its end before the same thread starts         *)
(* another, so at most one call of ANSI.textSizing is in progress; the     *)
(* calls of the Zig encoder run on threads of their own.                   *)
(***************************************************************************)
RepeatTexts == {TextX}

RepeatTsParamSets ==
    {<<>>, [scale |-> 2, width |-> 1], [numerator |-> 1, denominator |-> 2]}

RepeatZigParamSets ==
    {[ZigDefaultParams EXCEPT !.scale = 2],
     [ZigDefaultParams EXCEPT !.numerator = 1, !.denominator = 2]}

RepeatCaps == {Unlimited, MaxCap}

InProgress == {c \in Callers : frames[c].pc # "idle"}

Started == Len(log) + Cardinality(InProgress)

(* Variant: parts is one array of the module, made once and never emptied. *)
newParts_ModuleLevel(h) ==
    IF Len(h) = 0 THEN [id |-> 1, heap |-> <<<<>>>>] ELSE [id |-> 1, heap |-> h]

(* const parts: string[] = []  : a new empty array on the heap. *)
newParts(h) == [id |-> Len(h) + 1, heap |-> Append(h, <<>>)]

(* The statements of ANSI.textSizing after the array is made. *)
TsStatements == <<"scale", "width", "fraction", "vertical", "horizontal", "build">>

(* The statements of textSizingOutput. *)
ZigStatements ==
    <<"header", "scale", "width", "fraction", "vertical", "horizontal", "text">>

After(statements, pc) ==
    statements[1 + CHOOSE i \in 1..Len(statements) : statements[i] = pc]

(* What an if statement of ANSI.textSizing pushes onto parts. *)
tsPushes(pc, params) ==
    CASE pc = "scale" -> tsScaleParts(params)
      [] pc = "width" -> tsWidthParts(params)
      [] pc = "fraction" -> tsFractionParts(params)
      [] pc = "vertical" -> tsVerticalParts(params)
      [] pc = "horizontal" -> tsHorizontalParts(params)

(* The return statement of ANSI.textSizing. *)
tsSequence(parts, txt) ==
    <<ESC, RBRACKET, DIGIT0 + 6, DIGIT0 + 6>> \o tsParamsStr(parts)
        \o txt \o <<ESC, BACKSLASH>>

(* What a statement of textSizingOutput writes. *)
zigWrites(pc, params, needs_separator, txt) ==
    CASE pc = "header" -> << <<ESC, RBRACKET, DIGIT0 + 6, DIGIT0 + 6>> >>
      [] pc = "scale" -> zigScaleWrites(params)
      [] pc = "width" -> zigWidthWrites(params, needs_separator)
      [] pc = "fraction" -> zigFractionWrites(params, needs_separator)
      [] pc = "vertical" -> zigVerticalWrites(params, needs_separator)
      [] pc = "horizontal" -> zigHorizontalWrites(params, needs_separator)
      [] pc = "text" -> << <<SEMI>>, txt, <<ESC, BACKSLASH>> >>

(* A caller enters ANSI.textSizing and makes the parts array. *)
TsCall(c) ==
    /\ frames[c].pc = "idle"
    /\ Started < MaxCalls
    /\ \A d \in InProgress : frames[d].call # "textSizing"
    /\ \E params \in RepeatTsParamSets, txt \in RepeatTexts :
        LET made == newParts(heap)
        IN  /\ frames' = [frames EXCEPT ![c] =
                             [pc |-> "scale", call |-> "textSizing", params |-> params,
                              text |-> txt, parts |-> made.id, since |-> Len(log)]]
            /\ heap' = made.heap
    /\ UNCHANGED <<call, args, text, out, result, cap, sink, log, probeVars, appVars>>

(* One of the five if statements: it pushes onto the call's array or not. *)
TsPush(c) ==
    /\ frames[c].pc \notin {"idle", "build"}
    /\ frames[c].call = "textSizing"
    /\ heap' = [heap EXCEPT ![frames[c].parts] = @ \o tsPushes(frames[c].pc, frames[c].params)]
    /\ frames' = [frames EXCEPT ![c].pc = After(TsStatements, @)]
    /\ UNCHANGED <<call, args, text, out, result, cap, sink, log, probeVars, appVars>>

(* paramsStr is built from the call's array and the sequence is returned. *)
TsBuild(c) ==
    /\ frames[c].pc = "build"
    /\ frames[c].call = "textSizing"
    /\ Returns("textSizing", frames[c].params, frames[c].text, Unlimited,
               tsSequence(heap[frames[c].parts], frames[c].text), "ok",
               NewWriter(Unlimited))
    /\ frames' = [frames EXCEPT ![c] = Idle]
    /\ UNCHANGED <<heap, probeVars, appVars>>

(* ANSI.scaledText is one template string: a call is one step. *)
ScaledTextCall(c) ==
    /\ frames[c].pc = "idle"
    /\ Started < MaxCalls
    /\ \A d \in InProgress : frames[d].call # "textSizing"
    /\ \E txt \in RepeatTexts :
        Returns("scaledText", [scale |-> 2], txt, Unlimited, scaledText(2, txt), "ok",
                NewWriter(Unlimited))
    /\ UNCHANGED <<frames, heap, probeVars, appVars>>

(* A caller enters textSizingOutput with a writer of its own. *)
ZigCall(c) ==
    /\ frames[c].pc = "idle"
    /\ Started < MaxCalls
    /\ \E params \in RepeatZigParamSets, txt \in RepeatTexts, capacity \in RepeatCaps :
        frames' = [frames EXCEPT ![c] =
                      [pc |-> "header", call |-> "textSizingOutput", params |-> params,
                       text |-> txt, needs_separator |-> FALSE,
                       writer |-> NewWriter(capacity), since |-> Len(log)]]
    /\ UNCHANGED <<call, args, text, out, result, cap, sink, log, heap,
                   probeVars, appVars>>

(* One statement of textSizingOutput: its writes, each with                *)
(* `catch return AnsiError.WriteFailed`, and needs_separator; the call     *)
(* returns when a write fails and after the terminator.                    *)
ZigStatement(c) ==
    /\ frames[c].pc # "idle"
    /\ frames[c].call = "textSizingOutput"
    /\ LET f == frames[c]
           writes == zigWrites(f.pc, f.params, f.needs_separator, f.text)
           r == WriteEach(f.writer, writes)
       IN  IF r.err # "none" \/ f.pc = "text"
           THEN /\ Returns("textSizingOutput", f.params, f.text, f.writer.cap,
                           r.writer.buf, IF r.err = "none" THEN "ok" ELSE r.err,
                           r.writer)
                /\ frames' = [frames EXCEPT ![c] = Idle]
           ELSE /\ frames' = [frames EXCEPT ![c] =
                                 [f EXCEPT !.pc = After(ZigStatements, @),
                                           !.writer = r.writer,
                                           !.needs_separator =
                                               /\ f.pc # "header"
                                               /\ (@ \/ Len(writes) > 0)]]
                /\ UNCHANGED <<call, args, text, out, result, cap, sink, log>>
    /\ UNCHANGED <<heap, probeVars, appVars>>

NextCalls ==
    \E c \in Callers :
        \/ TsCall(c)
        \/ TsPush(c)
        \/ TsBuild(c)
        \/ ScaledTextCall(c)
        \/ ZigCall(c)
        \/ ZigStatement(c)

SpecCalls == Init /\ [][NextCalls]_vars

TypeOK ==
    /\ call \in {"none", "textSizing", "scaledText", "fractionalText",
                 "textSizingWithWidth", "explicitWidth", "textSizingOutput",
                 "scaledTextOutput", "fractionalTextOutput",
                 "textSizingWithWidthOutput", "explicitWidthOutput"}
    /\ result \in {"none", "ok", "WriteFailed"}
    /\ cap \in WriterCaps

(***************************************************************************)
(* Vocabulary of the properties.                                           *)
(***************************************************************************)
Header == <<ESC, RBRACKET, DIGIT0 + 6, DIGIT0 + 6>>
Terminator == <<ESC, BACKSLASH>>

GeneralCall == call \in {"textSizing", "textSizingOutput"}

(* The ParamSet of a call of a general encoder, defaults filled in. *)
ParamSet ==
    IF call = "textSizing"
    THEN [scale |-> IF Has(args, "scale") THEN args.scale ELSE 1,
          width |-> IF Has(args, "width") THEN args.width ELSE 0,
          numerator |-> IF Has(args, "numerator") THEN args.numerator ELSE 0,
          denominator |-> IF Has(args, "denominator") THEN args.denominator ELSE 0,
          verticalAlign |-> IF Has(args, "verticalAlign") THEN args.verticalAlign ELSE "top",
          horizontalAlign |-> IF Has(args, "horizontalAlign") THEN args.horizontalAlign
                              ELSE "left"]
    ELSE [scale |-> args.scale, width |-> args.width,
          numerator |-> args.numerator, denominator |-> args.denominator,
          verticalAlign |-> args.vertical_align,
          horizontalAlign |-> args.horizontal_align]

ScaleContributes(ps) == ps.scale > 1
WidthContributes(ps) == ps.width > 0
FractionContributes(ps) == ps.numerator > 0 /\ ps.denominator > ps.numerator
VerticalContributes(ps) == ps.verticalAlign # "top"
HorizontalContributes(ps) == ps.horizontalAlign # "left"

AlignCode(a) == IF a \in {"bottom", "right"} THEN 1 ELSE 2

(* The field groups the format asks for, in the format's order. *)
ExpectedGroups(ps) ==
    (IF ScaleContributes(ps) THEN << <<CH_s, EQUALS>> \o Dec(ps.scale) >> ELSE <<>>)
    \o (IF WidthContributes(ps) THEN << <<CH_w, EQUALS>> \o Dec(ps.width) >> ELSE <<>>)
    \o (IF FractionContributes(ps)
        THEN << <<CH_n, EQUALS>> \o Dec(ps.numerator) \o <<COLON, CH_d, EQUALS>>
                \o Dec(ps.denominator) >>
        ELSE <<>>)
    \o (IF VerticalContributes(ps)
        THEN << <<CH_v, EQUALS>> \o Dec(AlignCode(ps.verticalAlign)) >> ELSE <<>>)
    \o (IF HorizontalContributes(ps)
        THEN << <<CH_h, EQUALS>> \o Dec(AlignCode(ps.horizontalAlign)) >> ELSE <<>>)

(* o starts with ESC ] 6 6 and ends with ; txt ESC \ . *)
Framed(o, txt) ==
    /\ Len(o) >= Len(Header) + 1 + Len(txt) + Len(Terminator)
    /\ SubSeq(o, 1, Len(Header)) = Header
    /\ SubSeq(o, Len(o) - Len(txt) - Len(Terminator), Len(o))
           = <<SEMI>> \o txt \o Terminator

(* The bytes between ESC ] 6 6 and the ';' in front of the text. *)
Region(o, txt) == SubSeq(o, Len(Header) + 1, Len(o) - Len(txt) - Len(Terminator) - 1)

(* The parameter block: the region without the ';' that follows 66. *)
Block(o, txt) ==
    LET r == Region(o, txt)
    IN  IF Len(r) > 0 /\ r[1] = SEMI THEN Tail(r) ELSE r

Count(seq, b) == Cardinality({i \in 1..Len(seq) : seq[i] = b})

KeyPositions(seq, k) == {i \in 1..(Len(seq) - 1) : seq[i] = k /\ seq[i + 1] = EQUALS}

HasKey(seq, k) == KeyPositions(seq, k) # {}

KeyPos(seq, k) == CHOOSE i \in KeyPositions(seq, k) : TRUE

Contains(seq, sub) ==
    \E i \in 1..(Len(seq) - Len(sub) + 1) : SubSeq(seq, i, i + Len(sub) - 1) = sub

RECURSIVE Split(_, _)
Split(seq, sep) ==
    IF \A i \in 1..Len(seq) : seq[i] # sep THEN <<seq>>
    ELSE LET i == CHOOSE j \in 1..Len(seq) :
                      seq[j] = sep /\ \A k \in 1..(j - 1) : seq[k] # sep
         IN  <<SubSeq(seq, 1, i - 1)>> \o Split(SubSeq(seq, i + 1, Len(seq)), sep)

(***************************************************************************)
(* The wire grammar                                                        *)
(*   ESC ']' '6' '6' [';' field (':' field)*] ';' <text> ESC '\'           *)
(* with field one of s=<1-7>, w=<0-7>, n=<0-15>:d=<0-15>, v=<0|1|2>,       *)
(* h=<0|1|2>.                                                              *)
(***************************************************************************)
KeyRange(k) ==
    CASE k = CH_s -> 1..7
      [] k = CH_w -> 0..7
      [] k = CH_n -> 0..15
      [] k = CH_d -> 0..15
      [] k = CH_v -> 0..2
      [] k = CH_h -> 0..2
      [] OTHER -> {}

IsKeyValue(tok) ==
    /\ Len(tok) >= 3
    /\ tok[2] = EQUALS
    /\ \E x \in KeyRange(tok[1]) : SubSeq(tok, 3, Len(tok)) = Dec(x)

IsFieldList(toks) ==
    \A i \in 1..Len(toks) :
        /\ IsKeyValue(toks[i])
        /\ toks[i][1] = CH_n => (i < Len(toks) /\ toks[i + 1][1] = CH_d)
        /\ toks[i][1] = CH_d => (i > 1 /\ toks[i - 1][1] = CH_n)

InWireGrammar(o, txt) ==
    /\ Framed(o, txt)
    /\ LET r == Region(o, txt)
       IN  \/ r = <<>>
           \/ /\ r[1] = SEMI
              /\ IsFieldList(Split(Tail(r), COLON))

Ok == result = "ok"

(* The ParamSet lies within the documented ranges. *)
InRange(ps) ==
    /\ ps.scale \in 1..MaxScale
    /\ ps.width \in 0..MaxWidth
    /\ ps.numerator \in 0..MaxFraction
    /\ ps.denominator \in 0..MaxFraction

(* The arguments of the current call name exactly the fields in S. *)
OnlySet(ps, S) ==
    /\ ScaleContributes(ps) <=> "scale" \in S
    /\ WidthContributes(ps) <=> "width" \in S
    /\ FractionContributes(ps) <=> "fraction" \in S
    /\ VerticalContributes(ps) <=> "verticalAlign" \in S
    /\ HorizontalContributes(ps) <=> "horizontalAlign" \in S

(* Zig TextSizingParams with every field at its default. *)
ZigDefaults ==
    [scale |-> 1, width |-> 0, numerator |-> 0, denominator |-> 0,
     vertical_align |-> "top", horizontal_align |-> "left"]

(***************************************************************************)
(* C1: for every ParamSet with at least one contributing field, TypeScript *)
(* ANSI.textSizing returns ESC ] 6 6 ; <fields joined by ':'> ; <text>     *)
(* ESC \ : a ';' separates the code 66 from the parameter block.           *)
(***************************************************************************)
C1_TsSemicolonAfterCode ==
    (call = "textSizing" /\ Len(ExpectedGroups(ParamSet)) >= 1)
        => out = Header \o <<SEMI>> \o Join(ExpectedGroups(ParamSet), <<COLON>>)
                 \o <<SEMI>> \o text \o Terminator

(***************************************************************************)
(* C2: when no field contributes, both general encoders produce            *)
(* ESC ] 6 6 ; ; <text> ESC \ , with two semicolons between 66 and the     *)
(* text.                                                                   *)
(***************************************************************************)
C2_EmptyBlockTwoSemicolons ==
    (GeneralCall /\ Ok /\ Len(ExpectedGroups(ParamSet)) = 0)
        => out = Header \o <<SEMI, SEMI>> \o text \o Terminator

(***************************************************************************)
(* C3: the bytes Zig textSizingOutput writes are a string of the wire      *)
(* grammar: one ';' before the first field, one ':' before each later      *)
(* field, one ';' before the text.                                         *)
(***************************************************************************)
C3_ZigOutputInWireGrammar ==
    (call = "textSizingOutput" /\ Ok /\ InRange(ParamSet))
        => /\ InWireGrammar(out, text)
           /\ LET r == Region(out, text)
                  groups == Len(ExpectedGroups(ParamSet))
              IN  /\ Count(r, SEMI) = IF groups > 0 THEN 1 ELSE 0
                  /\ groups > 0 =>
                         Count(r, COLON) = groups - 1
                             + IF FractionContributes(ParamSet) THEN 1 ELSE 0

C3_Witness ==
    /\ call = "textSizingOutput" /\ Ok /\ InRange(ParamSet)
    /\ ScaleContributes(ParamSet) /\ WidthContributes(ParamSet)
    /\ FractionContributes(ParamSet) /\ ParamSet.denominator >= 10
    /\ VerticalContributes(ParamSet) /\ HorizontalContributes(ParamSet)
    /\ Contains(text, <<SEMI>>)

(***************************************************************************)
(* C4: in the output of a general encoder a field appears iff its          *)
(* parameter differs from the default, and then it carries the             *)
(* parameter's value; a default value is never emitted.                    *)
(***************************************************************************)
C4_FieldIffNonDefault ==
    (GeneralCall /\ Ok)
        => LET b == Block(out, text)
               ps == ParamSet
           IN  /\ Framed(out, text)
               /\ HasKey(b, CH_s) <=> ps.scale > 1
               /\ HasKey(b, CH_w) <=> ps.width > 0
               /\ HasKey(b, CH_n) <=> FractionContributes(ps)
               /\ HasKey(b, CH_d) <=> FractionContributes(ps)
               /\ HasKey(b, CH_v) <=> ps.verticalAlign # "top"
               /\ HasKey(b, CH_h) <=> ps.horizontalAlign # "left"
               /\ ps.scale > 1 => Contains(b, <<CH_s, EQUALS>> \o Dec(ps.scale))
               /\ ps.width > 0 => Contains(b, <<CH_w, EQUALS>> \o Dec(ps.width))
               /\ \A k \in {CH_s, CH_w, CH_n, CH_d, CH_v, CH_h} :
                      Cardinality(KeyPositions(b, k)) <= 1

(* A call that spells out default values next to a non-default one. *)
C4_Witness ==
    /\ call = "textSizing" /\ Ok
    /\ Has(args, "scale") /\ args.scale = 1
    /\ Has(args, "width") /\ args.width = 0
    /\ Has(args, "verticalAlign") /\ args.verticalAlign = "top"
    /\ Has(args, "horizontalAlign") /\ args.horizontalAlign = "right"
    /\ Has(args, "numerator") /\ args.numerator = 0
    /\ Has(args, "denominator") /\ args.denominator = 2

(***************************************************************************)
(* C5: the fractional pair is atomic: n= and d= appear both, adjacent as   *)
(* n=<numerator>:d=<denominator>, iff numerator > 0 and denominator >      *)
(* numerator, and otherwise neither appears and the output is that of the  *)
(* same ParamSet with numerator and denominator at their defaults.         *)
(***************************************************************************)
C5_FractionPairAtomic ==
    (GeneralCall /\ Ok)
        => LET b == Block(out, text)
               ps == ParamSet
               pair == <<CH_n, EQUALS>> \o Dec(ps.numerator)
                           \o <<COLON, CH_d, EQUALS>> \o Dec(ps.denominator)
               active == ps.numerator > 0 /\ ps.denominator > ps.numerator
           IN  /\ active => /\ Contains(b, pair)
                            /\ Cardinality(KeyPositions(b, CH_n)) = 1
                            /\ Cardinality(KeyPositions(b, CH_d)) = 1
               /\ ~active => /\ ~HasKey(b, CH_n)
                             /\ ~HasKey(b, CH_d)
               /\ (~active /\ call = "textSizing") =>
                      out = textSizing([f \in DOMAIN args \ {"numerator", "denominator"}
                                            |-> args[f]], text)
               /\ (~active /\ call = "textSizingOutput") =>
                      out = textSizingOutput(NewWriter(cap),
                                [args EXCEPT !.numerator = 0, !.denominator = 0],
                                text).writer.buf
               /\ (OnlySet(ps, {"fraction"}) /\ ps.numerator = 1 /\ ps.denominator = 2)
                      => b = <<CH_n, EQUALS, DIGIT0 + 1, COLON, CH_d, EQUALS, DIGIT0 + 2>>

(* numerator = 3, denominator = 2: the pair is set and does not contribute. *)
C5_Witness ==
    /\ GeneralCall /\ Ok
    /\ ParamSet.numerator = 3 /\ ParamSet.denominator = 2
    /\ text = TextX

(***************************************************************************)
(* C6: a general encoder emits the contributing fields in the fixed order  *)
(* scale, width, fractional pair, vertical alignment, horizontal           *)
(* alignment; with all five non-default the block is                       *)
(* s=..:w=..:n=..:d=..:v=..:h=.. .                                         *)
(***************************************************************************)
KeyOrder == <<CH_s, CH_w, CH_n, CH_d, CH_v, CH_h>>

C6_FixedFieldOrder ==
    (GeneralCall /\ Ok)
        => LET b == Block(out, text)
               ps == ParamSet
           IN  /\ \A i, j \in 1..Len(KeyOrder) :
                      (i < j /\ HasKey(b, KeyOrder[i]) /\ HasKey(b, KeyOrder[j]))
                          => KeyPos(b, KeyOrder[i]) < KeyPos(b, KeyOrder[j])
               /\ Len(ExpectedGroups(ps)) = 5 =>
                      b = <<CH_s, EQUALS>> \o Dec(ps.scale)
                          \o <<COLON, CH_w, EQUALS>> \o Dec(ps.width)
                          \o <<COLON, CH_n, EQUALS>> \o Dec(ps.numerator)
                          \o <<COLON, CH_d, EQUALS>> \o Dec(ps.denominator)
                          \o <<COLON, CH_v, EQUALS>> \o Dec(AlignCode(ps.verticalAlign))
                          \o <<COLON, CH_h, EQUALS>> \o Dec(AlignCode(ps.horizontalAlign))

C6_Witness ==
    /\ call = "textSizing" /\ Ok
    /\ Len(ExpectedGroups(ParamSet)) = 5

(***************************************************************************)
(* C7: when two or more field groups contribute, a general encoder joins   *)
(* them with exactly one ':' between consecutive groups, with no leading   *)
(* or trailing ':' and no ';' between fields; scale=2, width=2 gives the   *)
(* block s=2:w=2.                                                          *)
(***************************************************************************)
C7_ColonJoinedBlock ==
    (GeneralCall /\ Ok /\ Len(ExpectedGroups(ParamSet)) >= 2)
        => LET b == Block(out, text)
               ps == ParamSet
           IN  /\ Len(b) > 0
               /\ b[1] # COLON
               /\ b[Len(b)] # COLON
               /\ Count(b, SEMI) = 0
               /\ \A i \in 1..(Len(b) - 1) : ~(b[i] = COLON /\ b[i + 1] = COLON)
               /\ Count(b, COLON) = Len(ExpectedGroups(ps)) - 1
                      + IF FractionContributes(ps) THEN 1 ELSE 0
               /\ (OnlySet(ps, {"scale", "width"}) /\ ps.scale = 2 /\ ps.width = 2)
                      => b = <<CH_s, EQUALS, DIGIT0 + 2, COLON, CH_w, EQUALS, DIGIT0 + 2>>

C7_Witness ==
    /\ call = "textSizing" /\ Ok
    /\ OnlySet(ParamSet, {"scale", "width"})
    /\ ParamSet.scale = 2 /\ ParamSet.width = 2

(***************************************************************************)
(* C8: both implementations serialize alignment with fixed codes: bottom   *)
(* gives v=1, center v=2, right h=1, center h=2, top and left no field;    *)
(* scale=2 with horizontalAlign=center and text "CENTER" gives exactly     *)
(* ESC ] 6 6 ; s = 2 : h = 2 ; CENTER ESC \ .                              *)
(***************************************************************************)
C8_AlignmentCodes ==
    (GeneralCall /\ Ok)
        => LET b == Block(out, text)
               ps == ParamSet
           IN  /\ ps.verticalAlign = "bottom" <=> Contains(b, <<CH_v, EQUALS, DIGIT0 + 1>>)
               /\ ps.verticalAlign = "center" <=> Contains(b, <<CH_v, EQUALS, DIGIT0 + 2>>)
               /\ ps.verticalAlign = "top" <=> ~HasKey(b, CH_v)
               /\ ps.horizontalAlign = "right" <=> Contains(b, <<CH_h, EQUALS, DIGIT0 + 1>>)
               /\ ps.horizontalAlign = "center" <=> Contains(b, <<CH_h, EQUALS, DIGIT0 + 2>>)
               /\ ps.horizontalAlign = "left" <=> ~HasKey(b, CH_h)
               /\ (/\ OnlySet(ps, {"scale", "horizontalAlign"})
                   /\ ps.scale = 2 /\ ps.horizontalAlign = "center"
                   /\ text = TextCENTER)
                      => out = Header \o <<SEMI, CH_s, EQUALS, DIGIT0 + 2, COLON,
                                           CH_h, EQUALS, DIGIT0 + 2, SEMI>>
                               \o TextCENTER \o Terminator

(***************************************************************************)
(* C9: each TypeScript convenience encoder returns the bytes of            *)
(* ANSI.textSizing called with only the corresponding fields set, for      *)
(* scale 2..7, width 1..7 and 0 < numerator < denominator <= 15.           *)
(***************************************************************************)
C9_TsConvenienceEqualsGeneral ==
    /\ (call = "scaledText" /\ args.scale \in 2..7)
           => out = textSizing([scale |-> args.scale], text)
    /\ (call = "explicitWidth" /\ args.width \in 1..7)
           => out = textSizing([width |-> args.width], text)
    /\ (call = "fractionalText" /\ 0 < args.numerator
            /\ args.numerator < args.denominator /\ args.denominator <= 15)
           => out = textSizing([numerator |-> args.numerator,
                                denominator |-> args.denominator], text)
    /\ (call = "textSizingWithWidth" /\ args.scale \in 2..7 /\ args.width \in 1..7)
           => out = textSizing([scale |-> args.scale, width |-> args.width], text)

(***************************************************************************)
(* C10: each Zig convenience encoder writes the bytes textSizingOutput     *)
(* writes to the same writer for a TextSizingParams that sets only the     *)
(* corresponding fields, for scale 2..7, width 1..7 and                    *)
(* 0 < numerator < denominator <= 15.                                      *)
(***************************************************************************)
SameAsGeneral(params) ==
    LET r == textSizingOutput(NewWriter(cap), params, text)
    IN  Ok => (r.err = "none" /\ out = r.writer.buf)

C10_ZigConvenienceEqualsGeneral ==
    /\ (call = "scaledTextOutput" /\ args.scale \in 2..7)
           => SameAsGeneral([ZigDefaults EXCEPT !.scale = args.scale])
    /\ (call = "explicitWidthOutput" /\ args.width \in 1..7)
           => SameAsGeneral([ZigDefaults EXCEPT !.width = args.width])
    /\ (call = "fractionalTextOutput" /\ 0 < args.numerator
            /\ args.numerator < args.denominator /\ args.denominator <= 15)
           => SameAsGeneral([ZigDefaults EXCEPT !.numerator = args.numerator,
                                                !.denominator = args.denominator])
    /\ (call = "textSizingWithWidthOutput" /\ args.scale \in 2..7 /\ args.width \in 1..7)
           => SameAsGeneral([ZigDefaults EXCEPT !.scale = args.scale,
                                                !.width = args.width])

C10_Witness ==
    /\ call = "textSizingWithWidthOutput" /\ Ok
    /\ args.scale = 7 /\ args.width = 1
    /\ text = <<SPACE>>

(***************************************************************************)
(* C11: every encoder copies the payload verbatim: the output is           *)
(* ESC ] 6 6, the parameter block, ';', the text unchanged (also when it   *)
(* holds ESC or the terminator), and the two bytes ESC \ .                 *)
(***************************************************************************)
C11_PayloadVerbatim ==
    (call # "none" /\ Ok)
        => LET n == Len(out)
               blockEnd == n - Len(text) - Len(Terminator)
           IN  /\ n >= Len(Header) + 1 + Len(text) + Len(Terminator)
               /\ SubSeq(out, 1, Len(Header)) = Header
               /\ out[blockEnd] = SEMI
               /\ SubSeq(out, blockEnd + 1, n - Len(Terminator)) = text
               /\ SubSeq(out, n - 1, n) = <<ESC, BACKSLASH>>
               /\ \A i \in 2..blockEnd : out[i] # ESC

C11_Witness ==
    /\ call = "textSizing" /\ Ok
    /\ text = TextEmbedded
    /\ ScaleContributes(ParamSet)

(***************************************************************************)
(* C12: when scale > 1 and a valid fractional pair are both set, a general *)
(* encoder emits both, s= first and n=..:d=.. after it.                    *)
(***************************************************************************)
C12_ScaleAndFractionBothEmitted ==
    (GeneralCall /\ Ok /\ ParamSet.scale > 1 /\ FractionContributes(ParamSet))
        => LET b == Block(out, text)
               ps == ParamSet
           IN  /\ Contains(b, <<CH_s, EQUALS>> \o Dec(ps.scale))
               /\ Contains(b, <<CH_n, EQUALS>> \o Dec(ps.numerator)
                                 \o <<COLON, CH_d, EQUALS>> \o Dec(ps.denominator))
               /\ HasKey(b, CH_s) /\ HasKey(b, CH_n) /\ HasKey(b, CH_d)
               /\ KeyPos(b, CH_s) = 1
               /\ KeyPos(b, CH_s) < KeyPos(b, CH_n)
               /\ KeyPos(b, CH_n) < KeyPos(b, CH_d)

C12_Witness ==
    /\ call = "textSizing" /\ Ok
    /\ ParamSet.scale = MaxScale
    /\ ParamSet.numerator = 10 /\ ParamSet.denominator = MaxFraction

(***************************************************************************)
(* C13: a parameter value outside its range is clamped or rejected with    *)
(* ParameterOutOfRange, so that every field a general encoder emits        *)
(* carries a value of the wire grammar's range (s 1-7, w 0-7, n and d      *)
(* 0-15).                                                                  *)
(***************************************************************************)
C13_OutOfRangeClampedOrRejected ==
    (GeneralCall /\ Ok)
        => LET b == Block(out, text)
           IN  b = <<>> \/ IsFieldList(Split(b, COLON))

(***************************************************************************)
(* C14: encoding is deterministic and stateless.  Two calls with the same  *)
(* inputs return the same bytes and the same result, and every call        *)
(* returns what the encoder gives on its inputs when it is called alone,   *)
(* whatever calls were made before it, between the two, or were running    *)
(* on another thread while it ran.                                         *)
(***************************************************************************)
SameInputs(e, f) ==
    /\ e.call = f.call
    /\ e.text = f.text
    /\ e.cap = f.cap
    /\ DOMAIN e.args = DOMAIN f.args
    /\ \A k \in DOMAIN e.args : e.args[k] = f.args[k]

(* What the encoder of a log entry gives on the entry's inputs, alone. *)
Alone(e) ==
    CASE e.call = "textSizing" -> [out |-> textSizing(e.args, e.text), result |-> "ok"]
      [] e.call = "scaledText" -> [out |-> scaledText(e.args.scale, e.text), result |-> "ok"]
      [] e.call = "textSizingOutput" ->
            LET r == textSizingOutput(NewWriter(e.cap), e.args, e.text)
            IN  [out |-> r.writer.buf,
                 result |-> IF r.err = "none" THEN "ok" ELSE r.err]

C14_Deterministic ==
    /\ \A i, j \in 1..Len(log) :
           SameInputs(log[i], log[j])
               => (log[i].out = log[j].out /\ log[i].result = log[j].result)
    /\ \A i \in 1..Len(log) :
           log[i].out = Alone(log[i]).out /\ log[i].result = Alone(log[i]).result

(* The same call of ANSI.textSizing made twice, both while a call of       *)
(* textSizingOutput that began before them is still writing.               *)
C14_Witness ==
    /\ Len(log) = 2
    /\ SameInputs(log[1], log[2])
    /\ log[1].call = "textSizing"
    /\ Len(heap) = 2
    /\ Len(heap[1]) = 2
    /\ \E c \in Callers :
           /\ frames[c].pc = "fraction"
           /\ frames[c].call = "textSizingOutput"
           /\ frames[c].since = 0
           /\ frames[c].needs_separator

(***************************************************************************)
(* The capability probes.                                                  *)
(***************************************************************************)
ProbeStates == {"NotProbed", "ProbeSent", "AwaitingReply", "Resolved"}

TypeOKProbe ==
    /\ pstate \in [Probes -> ProbeStates]
    /\ flag \in [Probes -> BOOLEAN]
    /\ term \in Terminals
    /\ answered \in 0..Len(sentOrder)
    /\ readCount \in 0..answered
    /\ Len(replies) = answered - readCount

(* The bytes of the two probes, written out. *)
WidthProbeBytes == <<27, 93, 54, 54, 59, 119, 61, 49, 59, 32, 27, 92, 27, 91, 54, 110>>
ScaleProbeBytes == <<27, 93, 54, 54, 59, 115, 61, 50, 59, 32, 27, 92, 27, 91, 54, 110>>

RECURSIVE Flatten(_)
Flatten(seqs) == IF seqs = <<>> THEN <<>> ELSE Head(seqs) \o Flatten(Tail(seqs))

(* C15: the width probe is ESC]66;w=1; ESC\ with one space as payload, the *)
(* scale probe is ESC]66;s=2; ESC\, and each is immediately followed by    *)
(* the cursor position request ESC[6n: the bytes sent to the terminal are  *)
(* exactly these, probe after probe in the order of sending.               *)
C15_ProbeQueriesBitExact ==
    wire = Flatten([i \in 1..Len(sentOrder) |->
                        IF sentOrder[i] = "width" THEN WidthProbeBytes
                        ELSE ScaleProbeBytes])

C15_Witness ==
    /\ Len(sentOrder) = 2
    /\ sentOrder[1] = "scale"
    /\ Len(wire) = 32

(* C16: a probe that was sent to a terminal that never replies eventually  *)
(* resolves, to false; while no reply is supplied both flags are false and *)
(* every probe is in one of the four states of the protocol.               *)
C16_NoReplyResolvesFalse ==
    /\ \A p \in Probes :
           (pstate[p] = "ProbeSent" /\ ~term.answers)
               ~> (pstate[p] = "Resolved" /\ ~flag[p])
    /\ [](~term.answers => (\A p \in Probes : ~flag[p] /\ pstate[p] \in ProbeStates))

C16_Witness ==
    /\ ~term.answers
    /\ \A p \in Probes : pstate[p] = "Resolved" /\ resolution[p].by = "timeout"
    /\ replies = <<>>

(* C17: a flag is true exactly when a position report was read for its     *)
(* probe and the report shows an advance of more than one unscaled space;  *)
(* not probed, waiting, timed out or no extra advance all leave it false.  *)
C17_FlagOnlyOnConfirmation ==
    \A p \in Probes :
        flag[p] <=> /\ pstate[p] = "Resolved"
                    /\ resolution[p].by = "reply"
                    /\ resolution[p].advance > SpaceWidth

C17_Witness ==
    /\ flag["scale"]
    /\ resolution["scale"].advance = SpaceWidth + 1
    /\ pstate["width"] = "Resolved"
    /\ resolution["width"].by = "reply"
    /\ resolution["width"].advance = SpaceWidth
    /\ ~flag["width"]

ProbeSuccessor(st) ==
    CASE st = "NotProbed" -> "ProbeSent"
      [] st = "ProbeSent" -> "AwaitingReply"
      [] st = "AwaitingReply" -> "Resolved"
      [] OTHER -> "Resolved"

(* C18: a probe only moves NotProbed -> ProbeSent -> AwaitingReply ->      *)
(* Resolved, one state at a time and never back; its flag is false before  *)
(* Resolved and does not change after.                                     *)
C18_ProbeStateMachine ==
    /\ [](\A p \in Probes : pstate[p] # "Resolved" => ~flag[p])
    /\ [][\A p \in Probes :
             /\ pstate'[p] # pstate[p] =>
                    (pstate[p] # "Resolved" /\ pstate'[p] = ProbeSuccessor(pstate[p]))
             /\ pstate[p] = "Resolved" => flag'[p] = flag[p]]_vars

C18_Witness ==
    /\ pstate["width"] = "Resolved"
    /\ flag["width"]
    /\ pstate["scale"] = "Resolved"
    /\ resolution["scale"].by = "timeout"
    /\ readCount = 2

PositionIn(order, p) == CHOOSE i \in 1..Len(order) : order[i] = p

(* C19: replies are matched by arrival order: the probe resolved by the    *)
(* k-th position report is the k-th probe sent, and so each probe gets the *)
(* advance the terminal produced for its own query, whatever the reports   *)
(* say.                                                                    *)
C19_RepliesMatchedInOrder ==
    \A p \in Probes :
        resolution[p].by = "reply" =>
            /\ resolution[p].index = PositionIn(sentOrder, p)
            /\ resolution[p].advance = term.advance[p]

C19_Witness ==
    /\ overlap
    /\ sentOrder = <<"scale", "width">>
    /\ \A p \in Probes : resolution[p].by = "reply"
    /\ term.advance["scale"] = SpaceWidth + 1
    /\ term.advance["width"] = SpaceWidth
    /\ flag["scale"] /\ ~flag["width"]

(* What probing one capability on its own gives. *)
AloneFlag(p) == resolution[p].by = "reply" /\ term.advance[p] > SpaceWidth

(* C20: a step changes the state and flag of at most one probe, and a      *)
(* resolved probe has the flag it would have if probed alone against the   *)
(* same terminal, whether the queries were interleaved or not.             *)
C20_ProbesIndependent ==
    /\ [](\A p \in Probes : pstate[p] = "Resolved" => flag[p] = AloneFlag(p))
    /\ [][\A p, q \in Probes :
             (p # q /\ (pstate'[p] # pstate[p] \/ flag'[p] # flag[p]))
                 => (pstate'[q] = pstate[q] /\ flag'[q] = flag[q])]_vars

C20_Witness ==
    /\ overlap
    /\ \A p \in Probes : pstate[p] = "Resolved"
    /\ resolution["width"].by = "timeout"
    /\ resolution["scale"].by = "reply"
    /\ flag["scale"]
    /\ ~flag["width"]
    /\ term.advance["width"] = SpaceWidth + 1

Pending(p) == pstate[p] \in {"ProbeSent", "AwaitingReply"}

(* C21: when the host is torn down after a probe was sent and before its   *)
(* reply was read, the flag of that probe is false and stays false; a flag *)
(* is at every moment a boolean that is true only for a probe resolved by  *)
(* a confirming reply, and no flag changes after the teardown.             *)
C21_TeardownFailsClosed ==
    /\ [](\A p \in Probes : (~alive /\ Pending(p)) => ~flag[p])
    /\ [](\A p \in Probes :
              /\ flag[p] \in BOOLEAN
              /\ flag[p] => (pstate[p] = "Resolved" /\ resolution[p].by = "reply"))
    /\ [][~alive => (flag' = flag /\ pstate' = pstate)]_vars

C21_Witness ==
    /\ ~alive
    /\ pstate["width"] = "AwaitingReply"
    /\ term.advance["width"] = SpaceWidth + 1
    /\ Len(replies) = 1
    /\ flag["scale"]
    /\ ~flag["width"]

(***************************************************************************)
(* The encoders again.                                                     *)
(***************************************************************************)
ZigParamsOf(ps) ==
    [scale |-> ps.scale, width |-> ps.width,
     numerator |-> ps.numerator, denominator |-> ps.denominator,
     vertical_align |-> ps.verticalAlign, horizontal_align |-> ps.horizontalAlign]

(* C24: for every ParamSet within the valid ranges and every text,         *)
(* TypeScript ANSI.textSizing returns the bytes that Zig textSizingOutput  *)
(* writes for the same ParamSet and text.                                  *)
C24_GeneralEncodersAgree ==
    (call = "textSizing" /\ InRange(ParamSet))
        => out = textSizingOutput(NewWriter(Unlimited), ZigParamsOf(ParamSet),
                                  text).writer.buf

ConvenienceCall ==
    call \in {"scaledText", "fractionalText", "textSizingWithWidth", "explicitWidth",
              "scaledTextOutput", "fractionalTextOutput", "textSizingWithWidthOutput",
              "explicitWidthOutput"}

(* The ParamSet a convenience call stands for. *)
ConvenienceParamSet ==
    [scale |-> IF Has(args, "scale") THEN args.scale ELSE 1,
     width |-> IF Has(args, "width") THEN args.width ELSE 0,
     numerator |-> IF Has(args, "numerator") THEN args.numerator ELSE 0,
     denominator |-> IF Has(args, "denominator") THEN args.denominator ELSE 0,
     verticalAlign |-> "top", horizontalAlign |-> "left"]

(* C25: the output of a convenience encoder is in the canonical minimal    *)
(* form: s= appears only for a scale above 1, w= only for a width above 0, *)
(* n= and d= only for a numerator above 0 and a denominator above the      *)
(* numerator.                                                              *)
C25_ConvenienceMinimalForm ==
    (ConvenienceCall /\ Ok)
        => LET b == Block(out, text)
               ps == ConvenienceParamSet
           IN  /\ HasKey(b, CH_s) => ps.scale > 1
               /\ HasKey(b, CH_w) => ps.width > 0
               /\ HasKey(b, CH_n) => FractionContributes(ps)
               /\ HasKey(b, CH_d) => FractionContributes(ps)

(* C26: the probe queries are what textSizingOutput writes for {width = 1} *)
(* and for {scale = 2} with a single space as text.                        *)
C26_QueriesAreEncoderOutput ==
    (call = "textSizingOutput" /\ Ok /\ text = <<SPACE>>)
        => /\ args = [ZigDefaultParams EXCEPT !.width = 1] => out = explicitWidthQuery
           /\ args = [ZigDefaultParams EXCEPT !.scale = 2] => out = scaledTextQuery

C26_Witness ==
    /\ call = "textSizingOutput" /\ Ok /\ text = <<SPACE>>
    /\ args = [ZigDefaultParams EXCEPT !.scale = 2]
    /\ cap = Unlimited

(* The bytes of a complete sequence for a ParamSet and a text. *)
CompleteOutput(ps, txt) ==
    Header
    \o (IF Len(ExpectedGroups(ps)) > 0
        THEN <<SEMI>> \o Join(ExpectedGroups(ps), <<COLON>>) ELSE <<>>)
    \o <<SEMI>> \o txt \o Terminator

(* C27: textSizingOutput fails only through the writer.  It returns ok or  *)
(* WriteFailed and nothing else; it returns ok, with the complete sequence *)
(* in the sink, exactly when the sink refused no write, for every ParamSet *)
(* and text; when the sink refuses a write it returns WriteFailed at once: *)
(* the sink is given no write after the one it refused, and it holds the   *)
(* bytes written before the failure, a proper prefix of the sequence.      *)
C27_FailsOnlyThroughWriter ==
    call = "textSizingOutput"
        => LET full == CompleteOutput(ParamSet, text)
           IN  /\ result \in {"ok", "WriteFailed"}
               /\ Ok <=> sink.refused = 0
               /\ Ok => out = full
               /\ result = "WriteFailed" =>
                      /\ sink.refused = 1
                      /\ sink.after = 0
                      /\ Len(out) < Len(full)
                      /\ out = SubSeq(full, 1, Len(out))

(* The sink refuses the third write of a sequence that has more to write,  *)
(* having taken the first two.                                             *)
C27_Witness ==
    /\ call = "textSizingOutput"
    /\ result = "WriteFailed"
    /\ sink.failAt = 3
    /\ sink.calls = 3
    /\ sink.refused = 1
    /\ Len(out) > Len(Header)
    /\ Len(text) > 0

(***************************************************************************)
(* The markdown renderers.                                                 *)
(***************************************************************************)
(* A header title: at least one character, none of them a line terminator. *)
IsTitle(x) == Len(x) >= 1 /\ \A i \in 1..Len(x) : IsDot(x[i])

(* The line is '#' level times, a blank and the title x. *)
IsHeaderLine(line, level, x) == line = [i \in 1..level |-> HASH] \o <<SPACE>> \o x

(* Line i lies inside a fenced block: an odd number of fences precede it. *)
InFence(i) ==
    Cardinality({k \in 1..(i - 1) :
                    startsWith(mdLines[k], <<BACKTICK, BACKTICK, BACKTICK>>)}) % 2 = 1

Osc66Scaled(n, x) ==
    <<27, 93, 54, 54, 59, 115, 61, 48 + n, 59>> \o x \o <<27, 92>>

(* C23: outside a fenced block a line '# X' is rendered as scaledText(3,   *)
(* X), a line '## X' or '### X' as scaledText(2, X) and a line '#### X' as *)
(* bold X without any OSC 66 sequence; inside a fenced block a header line *)
(* is copied, indented, and not scaled.  The result is the pushed strings  *)
(* joined by newlines.                                                     *)
C23_HeaderScales ==
    mdDone =>
        /\ Len(mdPushes) = Len(mdLines)
        /\ mdOut = Join(concat(mdPushes), <<NEWLINE>>)
        /\ \A i \in 1..Len(mdLines) :
               \A level \in 1..4 :
                   LET line == mdLines[i]
                       x == SubSeq(line, level + 2, Len(line))
                   IN  (IsHeaderLine(line, level, x) /\ IsTitle(x)) =>
                           IF InFence(i)
                           THEN /\ mdPushes[i] = <<<<SPACE, SPACE>> \o line>>
                                /\ ~Contains(mdPushes[i][1], Header)
                           ELSE /\ level = 1 => mdPushes[i][1] = Osc66Scaled(3, x)
                                /\ level \in {2, 3} => mdPushes[i][1] = Osc66Scaled(2, x)
                                /\ level = 4 =>
                                       /\ mdPushes[i][1]
                                              = <<27, 91, 49, 109>> \o x \o <<27, 91, 48, 109>>
                                       /\ \A k \in 1..Len(mdPushes[i]) :
                                              ~Contains(mdPushes[i][k], Header)

C23_Witness ==
    /\ mdDone
    /\ mdRenderer = "preview"
    /\ mdLines = << <<HASH, HASH, HASH, SPACE, 120>>,
                    <<BACKTICK, BACKTICK, BACKTICK, 120>>,
                    <<HASH, SPACE, 120>> >>
    /\ Contains(mdOut, Osc66Scaled(2, <<120>>))
    /\ ~Contains(mdOut, Osc66Scaled(3, <<120>>))

(* The key 'i' with no Ctrl, Alt or Shift. *)
PlainI(key) == key.name = "i" /\ ~key.ctrl /\ ~key.alt /\ ~key.shift

(* The mode the two rules of the mode machine give after a keypress. *)
ModeAfter(mode, key) ==
    IF mode = "normal" /\ PlainI(key) THEN "insert"
    ELSE IF mode = "insert" /\ key.name = "escape" THEN "normal"
    ELSE mode

(* C22: in both markdown editors the mode is normal after run(); it        *)
(* changes only by a plain 'i' in normal mode (to insert) and by 'escape'  *)
(* in insert mode (to normal), run() apart; and while the editor exists    *)
(* each of the two keys does switch the mode and every other keypress      *)
(* leaves it as it was.                                                    *)
C22_ModeMachine ==
    /\ [](edLast.op = "run" => vimMode = "normal")
    /\ [][vimMode' # vimMode =>
              \/ edLast'.op = "run"
              \/ /\ edLast'.op = "key"
                 /\ vimMode' = ModeAfter(vimMode, edLast'.key)]_vars
    /\ [][(edLast'.op = "key" /\ edEditor # "null") =>
              vimMode' = ModeAfter(vimMode, edLast'.key)]_vars

C22_Witness ==
    /\ edLast.op = "key"
    /\ edEditor = "live"
    /\ edListeners = 2
    /\ edLast.modeBefore = "normal"
    /\ PlainI(edLast.key)
    /\ vimMode = "insert"
    /\ edTitle = "INSERT"

(* C28: after every frame callback that ran with a live editor,            *)
(* previewContent is the editor's value and the preview shows the          *)
(* rendering of that value (nothing, in the styled editor, when the value  *)
(* is empty), and the preview was rendered again only if the value         *)
(* differed from previewContent.                                           *)
C28_PreviewFollowsEditor ==
    (edLast.op = "frame" /\ edLast.ran) =>
        /\ previewContent = edValue
        /\ previewShown = updatePreview(edVariant, edValue)
        /\ edLast.rendered => edLast.differed

(* C29: a keypress the styled editor handles in normal mode, the editor    *)
(* existing, is default-prevented by the normal-mode handler if it has a   *)
(* sequence and no Ctrl, and is not if it has Ctrl.                        *)
C29_NormalModeTypesNothing ==
    (/\ edLast.op = "key"
     /\ edVariant = "styled"
     /\ edLast.modeBefore = "normal"
     /\ edEditor # "null") =>
        /\ (edLast.key.sequence /\ ~edLast.key.ctrl) => edLast.byNormal
        /\ edLast.key.ctrl => ~edLast.byNormal

C29_Witness ==
    /\ edLast.op = "key"
    /\ edVariant = "styled"
    /\ edLast.modeBefore = "normal"
    /\ edEditor = "live"
    /\ edLast.key.name = "x"
    /\ edLast.key.sequence
    /\ ~edLast.key.ctrl
    /\ edLast.byNormal
    /\ vimMode = "normal"

(* The places of a piece in what was written. *)
DemoPlaces(piece) == {i \in 1..Len(demoOut) : demoOut[i] = piece}

(* C30: in the text-sizing demo the cursor is hidden at most once, by the  *)
(* first write of runDemo, and when the process has exited with the cursor *)
(* hidden, runDemo having completed or thrown or SIGINT or SIGTERM having  *)
(* arrived, the show-cursor sequence has been written after the hide.      *)
C30_CursorRestored ==
    /\ DemoPlaces("HIDE") \subseteq {2}
    /\ demoOut # <<>> => SubSeq(demoOut, 1, 2) = <<"CLEAR", "HIDE">>
    /\ (/\ demoStage = "exited"
        /\ demoExit.path \in {"normal", "exception", "SIGINT", "SIGTERM"}
        /\ DemoPlaces("HIDE") # {}) =>
           \E j \in DemoPlaces("SHOW") : j > 2

====
